---- MODULE Spec2Model ----
\* Model of the Simple Test Framework (terrapane/stf): the process-wide test
\* registry filled during static initialisation (RegisterTest, ExcludeTest)
\* and the supervised runner in main(), which runs every test body on a worker
\* thread while the controller waits on a condition variable with a timeout.
EXTENDS Integers, Sequences, FiniteSets, TLC

\* ---------------------------------------------------------------- bounds
\* Most Register calls, most Exclude calls, most failed calls, and the
\* longest time (in clock units) a returning test body takes.
MaxTests == 2
MaxExclusions == 1
MaxFailures == 1
MaxDur == 1
\* Most assertion statements a test body executes, and the longest buffer
\* the memory assertions are given.
MaxStmts == 2
MaxLen == 2

\* ------------------------------------------------------ program constants
Default_Timeout == 600
EXIT_SUCCESS == 0
EXIT_FAILURE == 1
\* exit_status while the process is still running
Running == -1

\* Qualified test names: two names that differ only in letter case.
Names == {"G::t", "G::T"}

\* The registered callables (the functions the STF_TEST macros define). What
\* a callable does is not fixed here: each call ends in one of Outcomes or
\* never ends, so one callable stands for them all.
Functions == {"f"}

\* How a call of a test body ends, when it ends: it returns normally, it
\* fails an assertion (the STF_ASSERT_* macros set Test_Failed and return),
\* it throws a std::exception, or it throws something else.
Outcomes == {"pass", "fail", "throw_std", "throw_other"}

\* Timeouts given at registration: explicit (STF_TEST_TIMEOUT) or the default.
Timeouts == {1, Default_Timeout}

VARIABLES
    pc,                     \* controller position: static_init, loop, spawn, ...
    Unit_Tests,             \* [ptr, vec]: unique_ptr<UnitTests>
    Unit_Test_Exclusions,   \* [ptr, vec]: unique_ptr<UnitTestExclusions>
    failed_registrations,
    Test_Failed,            \* std::atomic<bool>
    idx,                    \* position of the range-for over *Unit_Tests
    test_mutex,             \* free, main or worker
    cv_status,              \* what wait_for is returning: none, no_timeout, timeout
    worker,                 \* per registry entry, the state of its test_thread
    now,                    \* steady_clock
    wait_start,             \* clock value when wait_for was entered
    test_start_time,
    test_end_time,
    total_duration,
    out,                    \* lines written to std::cout
    exit_status,
    trace,                  \* history: body invocations and returns
    notified,               \* history: entries whose worker called notify_one
    results,                \* history: what the controller saw of each test run
    run,                    \* 1: the run itself, 2: the run with exclusions removed
    exit1,                  \* exit status of run 1, kept for run 2
    results1,               \* results of run 1, kept for run 2
    tests1,                 \* the registry of run 1, kept for run 2
    calls,                  \* history: the RegisterTest and ExcludeTest calls
    stmt,                   \* the assertion statement the test body is at
    bpc,                    \* position inside the test body and its macro
    nstmt,                  \* history: assertion statements begun by the body
    fcalls                  \* history: calls of the callable by this statement

vars == <<pc, Unit_Tests, Unit_Test_Exclusions, failed_registrations,
          Test_Failed, idx, test_mutex, cv_status, worker, now, wait_start,
          test_start_time, test_end_time, total_duration, out, exit_status,
          trace, notified, results, run, exit1, results1, tests1,
          calls, stmt, bpc, nstmt, fcalls>>

registryVars ==
    <<Unit_Tests, Unit_Test_Exclusions, failed_registrations, calls>>
assertVars == <<stmt, bpc, nstmt, fcalls>>
pairVars == <<run, exit1, results1, tests1>>
timeVars == <<now, wait_start, test_start_time, test_end_time, total_duration>>
histVars == <<trace, notified, results>>

\* ---------------------------------------------------------------- helpers
Max(a, b) == IF a >= b THEN a ELSE b

Min(a, b) == IF a <= b THEN a ELSE b

Line(kind, name, num) == [kind |-> kind, name |-> name, num |-> num]

Event(kind, i, at) == [kind |-> kind, test |-> i, at |-> at]

Result(kind, i) == [kind |-> kind, test |-> i]

Tests == Unit_Tests.vec

\* An assertion statement of a test body: the macro, its operands and what
\* its condition evaluated to ("true", "false", or "thrown" when an exception
\* left the assertion function).
Stmt(kind, a, b, c, result) ==
    [kind |-> kind, a |-> a, b |-> b, c |-> c, result |-> result]

NoStmt == Stmt("none", 0, 0, 0, "none")

\* The exclusion list is never consulted.
IsExcluded_Never(name) == FALSE

\* The exclusion scan with its comparison inverted.
IsExcluded_Inverted(name) ==
    /\ Unit_Test_Exclusions.ptr
    /\ \E k \in 1..Len(Unit_Test_Exclusions.vec) :
           Unit_Test_Exclusions.vec[k] # name

\* The name with its letters in lower case.
FoldCase(name) == IF name = "G::T" THEN "G::t" ELSE name

\* The exclusion scan comparing without regard to letter case.
IsExcluded_IgnoresCase(name) ==
    /\ Unit_Test_Exclusions.ptr
    /\ \E k \in 1..Len(Unit_Test_Exclusions.vec) :
           FoldCase(Unit_Test_Exclusions.vec[k]) = FoldCase(name)

\* Only the first entry of the exclusion list is compared.
IsExcluded_FirstOnly(name) ==
    /\ Unit_Test_Exclusions.ptr
    /\ Len(Unit_Test_Exclusions.vec) >= 1
    /\ Unit_Test_Exclusions.vec[1] = name

\* main, lines 960-982: the exclusion scan (exclusion == name on std::string).
IsExcluded(name) ==
    /\ Unit_Test_Exclusions.ptr
    /\ \E k \in 1..Len(Unit_Test_Exclusions.vec) :
           Unit_Test_Exclusions.vec[k] = name

\* ------------------------------------------------------------------- Init
Init ==
    /\ pc = "static_init"
    /\ Unit_Tests = [ptr |-> FALSE, vec |-> <<>>]
    /\ Unit_Test_Exclusions = [ptr |-> FALSE, vec |-> <<>>]
    /\ failed_registrations = 0
    /\ Test_Failed = FALSE
    /\ idx = 0
    /\ test_mutex = "free"
    /\ cv_status = "none"
    /\ worker = <<>>
    /\ now = 0
    /\ wait_start = 0
    /\ test_start_time = 0
    /\ test_end_time = 0
    /\ total_duration = 0
    /\ out = <<>>
    /\ exit_status = Running
    /\ trace = <<>>
    /\ notified = {}
    /\ results = <<>>
    /\ run = 1
    /\ exit1 = Running
    /\ results1 = <<>>
    /\ tests1 = <<>>
    /\ calls = [reg |-> <<>>, excl |-> <<>>, failed |-> <<>>]
    /\ stmt = NoStmt
    /\ bpc = "idle"
    /\ nstmt = 0
    /\ fcalls = 0

\* ------------------------------------------------- static initialisation
\* size() read before the element is stored.
ReturnedSize_Stale == Len(Unit_Tests.vec)

\* RegisterTest, line 225: return Unit_Tests->size(), after the emplace_back.
ReturnedSize == Len(Unit_Tests'.vec)

\* A throwing emplace_back leaves a half-made entry in the vector.
EmplaceFailed_KeepsPartial(vec, name) == Append(vec, name)

\* RegisterTest line 217, ExcludeTest line 255: emplace_back throws; the
\* vector holds what it held before (strong exception guarantee).
EmplaceFailed(vec, name) == vec

\* RegisterTest: fault "none" stores the test; "alloc" is make_unique
\* throwing (only when the vector is not allocated yet); "emplace" is
\* emplace_back throwing, which leaves the vector as it was. The value
\* returned to the caller is logged in calls: size() after the append, or 0
\* from the handler.
RegisterTest(name, test, timeout, fault) ==
    /\ pc = "static_init"
    /\ Len(Unit_Tests.vec) < MaxTests
    /\ fault = "alloc" => ~Unit_Tests.ptr
    /\ fault # "none" => failed_registrations < MaxFailures
    /\ Unit_Tests' =
         CASE fault = "none" ->
                [ptr |-> TRUE,
                 vec |-> Append(Unit_Tests.vec,
                                [name |-> name, test |-> test,
                                 timeout |-> timeout])]
           [] fault = "alloc" -> Unit_Tests
           [] OTHER -> [ptr |-> TRUE,
                        vec |-> EmplaceFailed(Unit_Tests.vec,
                                    [name |-> name, test |-> test,
                                     timeout |-> timeout])]
    /\ failed_registrations' =
         IF fault = "none" THEN failed_registrations
         ELSE failed_registrations + 1
    /\ calls' =
         IF fault = "none"
         THEN [calls EXCEPT !.reg =
                  Append(@, [name |-> name, test |-> test,
                             timeout |-> timeout,
                             ret |-> ReturnedSize])]
         ELSE [calls EXCEPT !.failed =
                  Append(@, [op |-> "RegisterTest", name |-> name,
                             test |-> test, ret |-> 0])]
    /\ UNCHANGED <<pc, Unit_Test_Exclusions, Test_Failed, idx, test_mutex,
                   cv_status, worker, out, exit_status>>
    /\ UNCHANGED <<timeVars, histVars, pairVars, assertVars>>

ExcludeTest(name, fault) ==
    /\ pc = "static_init"
    /\ Len(Unit_Test_Exclusions.vec) < MaxExclusions
    /\ fault = "alloc" => ~Unit_Test_Exclusions.ptr
    /\ fault # "none" => failed_registrations < MaxFailures
    /\ Unit_Test_Exclusions' =
         CASE fault = "none" ->
                [ptr |-> TRUE, vec |-> Append(Unit_Test_Exclusions.vec, name)]
           [] fault = "alloc" -> Unit_Test_Exclusions
           [] OTHER -> [ptr |-> TRUE,
                        vec |-> EmplaceFailed(Unit_Test_Exclusions.vec, name)]
    /\ failed_registrations' =
         IF fault = "none" THEN failed_registrations
         ELSE failed_registrations + 1
    /\ calls' =
         IF fault = "none"
         THEN [calls EXCEPT !.excl =
                  Append(@, [name |-> name, ret |-> TRUE])]
         ELSE [calls EXCEPT !.failed =
                  Append(@, [op |-> "ExcludeTest", name |-> name,
                             ret |-> FALSE])]
    /\ UNCHANGED <<pc, Unit_Tests, Test_Failed, idx, test_mutex,
                   cv_status, worker, out, exit_status>>
    /\ UNCHANGED <<timeVars, histVars, pairVars, assertVars>>

\* ------------------------------------------------------------------ main
\* The process ends: std::exit or return from main.
Exit(status) ==
    /\ pc' = "exited"
    /\ exit_status' = status

\* Static initialisation is over and main() is entered: from here on no
\* RegisterTest or ExcludeTest call is made.
EnterMain ==
    /\ pc = "static_init"
    /\ pc' = "main"
    /\ UNCHANGED <<registryVars, Test_Failed, idx, test_mutex, cv_status,
                   worker, out, exit_status>>
    /\ UNCHANGED <<timeVars, histVars, pairVars, assertVars>>

\* The count of failed registrations is never looked at.
RegistrationFailed_Never == FALSE

\* main, line 930: if (failed_registrations).
RegistrationFailed == failed_registrations # 0

\* A registry whose every entry is excluded is taken for an empty one.
MainStart_NeedsRunnable ==
    /\ pc = "main"
    /\ IF \/ ~Unit_Tests.ptr
          \/ \A i \in 1..Len(Unit_Tests.vec) :
                 \E k \in 1..Len(Unit_Test_Exclusions.vec) :
                    Unit_Test_Exclusions.vec[k] = Unit_Tests.vec[i].name
         THEN /\ out' = Append(out, Line("no_tests", "", 0))
              /\ Exit(EXIT_FAILURE)
              /\ UNCHANGED <<idx, worker>>
         ELSE IF RegistrationFailed
         THEN /\ out' = Append(out, Line("failed_to_register", "",
                                         failed_registrations))
              /\ Exit(EXIT_FAILURE)
              /\ UNCHANGED <<idx, worker>>
         ELSE /\ out' = Append(out, Line("total", "", Len(Unit_Tests.vec)))
              /\ pc' = "loop"
              /\ idx' = 1
              /\ worker' = [i \in 1..Len(Unit_Tests.vec) |-> "none"]
              /\ UNCHANGED exit_status
    /\ UNCHANGED <<registryVars, Test_Failed, test_mutex, cv_status>>
    /\ UNCHANGED <<timeVars, histVars, pairVars, assertVars>>

\* main, lines 917-942: the two precondition checks.
MainStart ==
    /\ pc = "main"
    /\ IF ~Unit_Tests.ptr \/ Len(Unit_Tests.vec) = 0
         THEN /\ out' = Append(out, Line("no_tests", "", 0))
              /\ Exit(EXIT_FAILURE)
              /\ UNCHANGED <<idx, worker>>
         ELSE IF RegistrationFailed
         THEN /\ out' = Append(out, Line("failed_to_register", "",
                                         failed_registrations))
              /\ Exit(EXIT_FAILURE)
              /\ UNCHANGED <<idx, worker>>
         ELSE /\ out' = Append(out, Line("total", "", Len(Unit_Tests.vec)))
              /\ pc' = "loop"
              /\ idx' = 1
              /\ worker' = [i \in 1..Len(Unit_Tests.vec) |-> "none"]
              /\ UNCHANGED exit_status
    /\ UNCHANGED <<registryVars, Test_Failed, test_mutex, cv_status>>
    /\ UNCHANGED <<timeVars, histVars, pairVars, assertVars>>

\* The range-for stepping over an entry.
NextIndex_Skips == idx + 2

\* main, line 947: the range-for moves to the next registry entry.
NextIndex == idx + 1

\* The failure flag is never seen set.
TestFailedObserved_Never == FALSE

\* main, line 1045: Test_Failed.load().
TestFailedObserved == Test_Failed

\* main, lines 947-987: the next registry entry; an excluded one is reported
\* and skipped, any other is announced and the hand-off mutex is locked.
NextTest ==
    /\ pc = "loop"
    /\ idx <= Len(Tests)
    /\ IF IsExcluded(Tests[idx].name)
         THEN /\ out' = Append(out, Line("excluding", Tests[idx].name, 0))
              /\ idx' = NextIndex
              /\ UNCHANGED <<pc, test_mutex, test_start_time, test_end_time>>
         ELSE /\ out' = Append(out, Line("running", Tests[idx].name, 0))
              /\ test_mutex' = "main"
              /\ test_start_time' = 0
              /\ test_end_time' = 0
              /\ pc' = "spawn"
              /\ UNCHANGED idx
    /\ UNCHANGED <<registryVars, Test_Failed, cv_status, worker, exit_status>>
    /\ UNCHANGED <<now, wait_start, total_duration, histVars, pairVars,
                   assertVars>>

\* main, lines 1075-1079: the loop is over; main returns 0.
AllPassed ==
    /\ pc = "loop"
    /\ idx > Len(Tests)
    /\ out' = Append(out, Line("all_passed", "", total_duration))
    /\ Exit(EXIT_SUCCESS)
    /\ UNCHANGED <<registryVars, Test_Failed, idx, test_mutex, cv_status,
                   worker>>
    /\ UNCHANGED <<timeVars, histVars, pairVars, assertVars>>

\* main, line 990: std::thread starts the worker.
Spawn ==
    /\ pc = "spawn"
    /\ worker' = [worker EXCEPT ![idx] = "start"]
    /\ pc' = "prewait"
    /\ UNCHANGED <<registryVars, Test_Failed, idx, test_mutex, cv_status,
                   out, exit_status>>
    /\ UNCHANGED <<timeVars, histVars, pairVars, assertVars>>

\* main, lines 990 and 1062-1067: std::thread's constructor throws
\* std::system_error, which main's handler reports before returning failure.
SpawnFails ==
    /\ pc = "spawn"
    /\ out' = Append(out, Line("unexpected_exception_what", "", 0))
    /\ test_mutex' = "free"
    /\ results' = Append(results, Result("spawn_failed", idx))
    /\ Exit(EXIT_FAILURE)
    /\ UNCHANGED <<registryVars, Test_Failed, idx, cv_status, worker>>
    /\ UNCHANGED <<timeVars, trace, notified, pairVars, assertVars>>

\* main, line 1026: wait_for releases the mutex and blocks.
WaitBegin ==
    /\ pc = "prewait"
    /\ test_mutex' = "free"
    /\ wait_start' = now
    /\ pc' = "wait"
    /\ UNCHANGED <<registryVars, Test_Failed, idx, cv_status, worker, out,
                   exit_status>>
    /\ UNCHANGED <<now, test_start_time, test_end_time, total_duration>>
    /\ UNCHANGED <<histVars, pairVars, assertVars>>

\* wait_for returns without a notification and before the timeout: the
\* standard allows condition variables to wake spuriously.
SpuriousWake ==
    /\ pc = "wait"
    /\ pc' = "woken"
    /\ cv_status' = "no_timeout"
    /\ UNCHANGED <<registryVars, Test_Failed, idx, test_mutex, worker, out,
                   exit_status>>
    /\ UNCHANGED <<timeVars, histVars, pairVars, assertVars>>

\* The clock reaches wait_start + timeout while the controller still waits.
TimerExpires ==
    /\ pc = "wait"
    /\ pc' = "woken"
    /\ cv_status' = "timeout"
    /\ now' = Max(now, wait_start + Tests[idx].timeout)
    /\ UNCHANGED <<registryVars, Test_Failed, idx, test_mutex, worker, out,
                   exit_status>>
    /\ UNCHANGED <<wait_start, test_start_time, test_end_time,
                   total_duration, histVars, pairVars, assertVars>>

\* main, lines 1026-1027: wait_for takes the mutex again and returns.
WaitReturn ==
    /\ pc = "woken"
    /\ test_mutex = "free"
    /\ test_mutex' = "main"
    /\ pc' = IF cv_status = "timeout" THEN "timedout" ELSE "join"
    /\ UNCHANGED <<registryVars, Test_Failed, idx, cv_status, worker, out,
                   exit_status>>
    /\ UNCHANGED <<timeVars, histVars, pairVars, assertVars>>

\* The timeout is reported but the controller goes on to join the worker.
TimeoutExit_Continues ==
    /\ pc = "timedout"
    /\ out' = Append(out, Line("timeout", Tests[idx].name,
                               Tests[idx].timeout))
    /\ results' = Append(results, Result("timeout", idx))
    /\ pc' = "join"
    /\ UNCHANGED <<registryVars, Test_Failed, idx, test_mutex, cv_status,
                   worker, exit_status>>
    /\ UNCHANGED <<timeVars, trace, notified, pairVars, assertVars>>

\* main, lines 1028-1039: the timeout diagnostic and std::exit.
TimeoutExit ==
    /\ pc = "timedout"
    /\ out' = Append(out, Line("timeout", Tests[idx].name,
                               Tests[idx].timeout))
    /\ results' = Append(results, Result("timeout", idx))
    /\ Exit(EXIT_FAILURE)
    /\ UNCHANGED <<registryVars, Test_Failed, idx, test_mutex, cv_status,
                   worker>>
    /\ UNCHANGED <<timeVars, trace, notified, pairVars, assertVars>>

\* The worker is detached instead of joined: the controller does not wait
\* for the thread to finish.
Join_Detaches ==
    /\ pc = "join"
    /\ pc' = "joined"
    /\ UNCHANGED <<registryVars, Test_Failed, idx, test_mutex, cv_status,
                   worker, out, exit_status>>
    /\ UNCHANGED <<timeVars, histVars, pairVars, assertVars>>

\* main, line 1042: join returns once the worker thread has finished.
Join ==
    /\ pc = "join"
    /\ worker[idx] = "done"
    /\ worker' = [worker EXCEPT ![idx] = "joined"]
    /\ pc' = "joined"
    /\ UNCHANGED <<registryVars, Test_Failed, idx, test_mutex, cv_status,
                   out, exit_status>>
    /\ UNCHANGED <<timeVars, histVars, pairVars, assertVars>>

\* The duration is printed and added before the failure flag is looked at.
AfterJoin_ReportsFirst ==
    /\ pc = "joined"
    /\ test_mutex' = "free"
    /\ cv_status' = "none"
    /\ out' = Append(out, Line("duration", "",
                               test_end_time - test_start_time))
    /\ total_duration' = total_duration + (test_end_time - test_start_time)
    /\ IF TestFailedObserved
         THEN /\ Exit(EXIT_FAILURE)
              /\ results' = Append(results, Result("failed", idx))
              /\ UNCHANGED idx
         ELSE /\ results' = Append(results, Result("ok", idx))
              /\ idx' = NextIndex
              /\ pc' = "loop"
              /\ UNCHANGED exit_status
    /\ UNCHANGED <<registryVars, Test_Failed, worker>>
    /\ UNCHANGED <<now, wait_start, test_start_time, test_end_time>>
    /\ UNCHANGED <<trace, notified, pairVars, assertVars>>

\* The failure flag is read and cleared (exchange instead of load).
AfterJoin_ClearsFlag ==
    /\ pc = "joined"
    /\ test_mutex' = "free"
    /\ cv_status' = "none"
    /\ Test_Failed' = FALSE
    /\ IF TestFailedObserved
         THEN /\ Exit(EXIT_FAILURE)
              /\ results' = Append(results, Result("failed", idx))
              /\ UNCHANGED <<idx, out, total_duration>>
         ELSE /\ out' = Append(out, Line("duration", "",
                                         test_end_time - test_start_time))
              /\ total_duration' =
                   total_duration + (test_end_time - test_start_time)
              /\ results' = Append(results, Result("ok", idx))
              /\ idx' = NextIndex
              /\ pc' = "loop"
              /\ UNCHANGED exit_status
    /\ UNCHANGED <<registryVars, worker>>
    /\ UNCHANGED <<now, wait_start, test_start_time, test_end_time>>
    /\ UNCHANGED <<trace, notified, pairVars, assertVars>>

\* main, lines 1044-1060: leave on a failure, else print and add the duration.
AfterJoin ==
    /\ pc = "joined"
    /\ test_mutex' = "free"
    /\ cv_status' = "none"
    /\ IF TestFailedObserved
         THEN /\ Exit(EXIT_FAILURE)
              /\ results' = Append(results, Result("failed", idx))
              /\ UNCHANGED <<idx, out, total_duration>>
         ELSE /\ out' = Append(out, Line("duration", "",
                                         test_end_time - test_start_time))
              /\ total_duration' =
                   total_duration + (test_end_time - test_start_time)
              /\ results' = Append(results, Result("ok", idx))
              /\ idx' = NextIndex
              /\ pc' = "loop"
              /\ UNCHANGED exit_status
    /\ UNCHANGED <<registryVars, Test_Failed, worker>>
    /\ UNCHANGED <<now, wait_start, test_start_time, test_end_time>>
    /\ UNCHANGED <<trace, notified, pairVars, assertVars>>

\* ---------------------------------------------------------------- worker
Alive == pc \notin {"static_init", "main", "exited"}

\* The worker calls the test without taking the start time.
WorkerStart_NoStartTime(i) ==
    /\ Alive
    /\ worker[i] = "start"
    /\ worker' = [worker EXCEPT ![i] = "body"]
    /\ trace' = Append(trace, Event("invoke", i, now))
    /\ UNCHANGED <<pc, registryVars, Test_Failed, idx, test_mutex, cv_status,
                   out, exit_status>>
    /\ UNCHANGED <<timeVars, notified, results, pairVars, assertVars>>

\* worker lambda, lines 993-999: take the start time and call the test.
WorkerStart(i) ==
    /\ Alive
    /\ worker[i] = "start"
    /\ test_start_time' = now
    /\ worker' = [worker EXCEPT ![i] = "body"]
    /\ trace' = Append(trace, Event("invoke", i, now))
    /\ UNCHANGED <<pc, registryVars, Test_Failed, idx, test_mutex, cv_status,
                   out, exit_status>>
    /\ UNCHANGED <<now, wait_start, test_end_time, total_duration>>
    /\ UNCHANGED <<notified, results, pairVars, assertVars>>

\* Only std::exception is caught: anything else leaves the thread function
\* and std::terminate ends the process.
BodyEnds_Uncaught(i, d, how) ==
    /\ Alive
    /\ worker[i] = "body"
    /\ bpc = "idle"
    /\ now' = now + d
    /\ Test_Failed' =
         IF how \in {"pass", "throw_other"} THEN Test_Failed ELSE TRUE
    /\ out' = IF how = "throw_std"
                THEN Append(out, Line("unexpected_exception_what", "", 0))
                ELSE out
    /\ IF how = "throw_other"
         THEN Exit(134) /\ UNCHANGED worker
         ELSE /\ worker' = [worker EXCEPT ![i] = "end"]
              /\ UNCHANGED <<pc, exit_status>>
    /\ trace' = Append(trace, Event(how, i, now + d))
    /\ UNCHANGED <<registryVars, idx, test_mutex, cv_status>>
    /\ UNCHANGED <<wait_start, test_start_time, test_end_time,
                   total_duration>>
    /\ UNCHANGED <<notified, results, pairVars, assertVars>>

\* worker lambda, lines 997-1015: after d clock units the call of the body
\* ends: it returns (having failed an assertion or not), or it throws and
\* one of the two handlers reports it and sets Test_Failed.
BodyEnds(i, d, how) ==
    /\ Alive
    /\ worker[i] = "body"
    /\ bpc = "idle"
    /\ now' = now + d
    /\ Test_Failed' = IF how = "pass" THEN Test_Failed ELSE TRUE
    /\ out' = CASE how = "throw_std" ->
                     Append(out, Line("unexpected_exception_what", "", 0))
                [] how = "throw_other" ->
                     Append(out, Line("unexpected_exception", "", 0))
                [] OTHER -> out
    /\ worker' = [worker EXCEPT ![i] = "end"]
    /\ trace' = Append(trace, Event(how, i, now + d))
    /\ UNCHANGED <<pc, registryVars, idx, test_mutex, cv_status, exit_status>>
    /\ UNCHANGED <<wait_start, test_start_time, test_end_time,
                   total_duration>>
    /\ UNCHANGED <<notified, results, pairVars, assertVars>>

\* worker lambda, line 999: the body blocks or loops for ever; test() never
\* returns.
BodyHangs(i) ==
    /\ Alive
    /\ worker[i] = "body"
    /\ bpc = "idle"
    /\ worker' = [worker EXCEPT ![i] = "hung"]
    /\ UNCHANGED <<pc, registryVars, Test_Failed, idx, test_mutex, cv_status,
                   out, exit_status>>
    /\ UNCHANGED <<timeVars, histVars, pairVars, assertVars>>

\* worker lambda, line 1018.
WorkerEndTime(i) ==
    /\ Alive
    /\ worker[i] = "end"
    /\ test_end_time' = now
    /\ worker' = [worker EXCEPT ![i] = "lock"]
    /\ UNCHANGED <<pc, registryVars, Test_Failed, idx, test_mutex, cv_status,
                   out, exit_status>>
    /\ UNCHANGED <<now, wait_start, test_start_time, total_duration>>
    /\ UNCHANGED <<histVars, pairVars, assertVars>>

\* The worker goes on to notify without taking the mutex.
WorkerLock_NoMutex(i) ==
    /\ Alive
    /\ worker[i] = "lock"
    /\ worker' = [worker EXCEPT ![i] = "notify"]
    /\ UNCHANGED <<pc, registryVars, Test_Failed, idx, test_mutex, cv_status,
                   out, exit_status>>
    /\ UNCHANGED <<timeVars, histVars, pairVars, assertVars>>

\* worker lambda, line 1021: lock_guard takes the mutex.
WorkerLock(i) ==
    /\ Alive
    /\ worker[i] = "lock"
    /\ test_mutex = "free"
    /\ test_mutex' = "worker"
    /\ worker' = [worker EXCEPT ![i] = "notify"]
    /\ UNCHANGED <<pc, registryVars, Test_Failed, idx, cv_status, out,
                   exit_status>>
    /\ UNCHANGED <<timeVars, histVars, pairVars, assertVars>>

\* worker lambda, lines 1022-1023: notify_one wakes the controller if it
\* waits, then the lambda returns, which unlocks the mutex and ends the thread.
WorkerNotify(i) ==
    /\ Alive
    /\ worker[i] = "notify"
    /\ IF pc = "wait"
         THEN pc' = "woken" /\ cv_status' = "no_timeout"
         ELSE UNCHANGED <<pc, cv_status>>
    /\ test_mutex' = "free"
    /\ worker' = [worker EXCEPT ![i] = "done"]
    /\ notified' = notified \cup {i}
    /\ UNCHANGED <<registryVars, Test_Failed, idx, out, exit_status>>
    /\ UNCHANGED <<timeVars, trace, results, pairVars, assertVars>>

\* ------------------------------------------------------ assertion core
\* AssignMessageStrings, lines 85-91: the labels main assigns before any
\* test runs.
ExpectText == "  expected: "
ActualText == "    actual: "
LHSText == "  lhs: "
RHSText == "  rhs: "

\* A line PrintValue (or one of the memory assertions) writes: the label,
\* the way the value is rendered, and what is shown.
ValueLine(label, render, shown) ==
    [kind |-> "value", name |-> label, num |-> 0, render |-> render,
     shown |-> shown]

\* PrintAssertFailed, lines 561-565: an end of line, then the banner with
\* the file and line of the assertion.
PrintAssertFailed(file, line) ==
    <<Line("endl", "", 0), Line("assertion_failed", file, line)>>

\* The source file of the test body (__FILE__).
File == "test.cpp"

\* ------------------------------------------------------- memory ranges
\* The octet values the buffers are filled with.
Octets == {0, 1, 255}

\* The buffers of up to MaxLen octets.
Buffers == UNION {[1..n -> Octets] : n \in 0..MaxLen}

HexDigits ==
    <<"0", "1", "2", "3", "4", "5", "6", "7", "8", "9", "a", "b", "c", "d",
      "e", "f">>

\* GetMemoryHex, lines 113-126: each octet as two hex digits (setw(2),
\* setfill('0')).
GetMemoryHex(memory, length) ==
    [i \in 1..length |->
        <<HexDigits[(memory[i] \div 16) + 1], HexDigits[(memory[i] % 16) + 1]>>]

\* The loop compares the whole range even after a difference is found, and
\* keeps the result of the last octet.
MemoryLoop_LastOctet(left, right, i, length) ==
    IF length = 0 THEN TRUE ELSE left[length] = right[length]

\* AssertMemoryEqual lines 768-782, AssertMemoryNotEqual lines 830-844: the
\* value of `equal` when the for loop, entered at index i, is left.
RECURSIVE MemoryLoop(_, _, _, _)
MemoryLoop(left, right, i, length) ==
    IF ~(i < length) THEN TRUE
    ELSE IF left[i + 1] # right[i + 1] THEN FALSE
    ELSE MemoryLoop(left, right, i + 1, length)

\* AssertMemoryEqual, lines 762-793: the value returned ("true" or "false")
\* and the lines printed.
AssertMemoryEqual(line, expected, actual, length) ==
    LET equal == MemoryLoop(expected, actual, 0, length) IN
    IF equal THEN [ret |-> "true", lines |-> <<>>]
    ELSE [ret |-> "false",
          lines |-> PrintAssertFailed(File, line) \o
                    <<ValueLine(ExpectText, "memory",
                                GetMemoryHex(expected, length)),
                      ValueLine(ActualText, "memory",
                                GetMemoryHex(actual, length))>>]

\* AssertMemoryNotEqual, lines 824-855.
AssertMemoryNotEqual(line, lhs, rhs, length) ==
    LET equal == MemoryLoop(lhs, rhs, 0, length) IN
    IF ~equal THEN [ret |-> "true", lines |-> <<>>]
    ELSE [ret |-> "false",
          lines |-> PrintAssertFailed(File, line) \o
                    <<ValueLine(LHSText, "memory", GetMemoryHex(lhs, length)),
                      ValueLine(RHSText, "memory",
                                GetMemoryHex(rhs, length))>>]

\* ----------------------------------------------------------- exceptions
\* The types a callable under test throws: the standard hierarchy, the
\* test suite's CustomException, and a string literal.
ExceptionTypes ==
    {"std::exception", "std::runtime_error", "std::logic_error",
     "CustomException", "const char*"}

\* What a call of the callable does: it returns, or it throws one of these.
Throws == {"nothing"} \cup ExceptionTypes

\* The public base class of an exception type, if it has one.
BaseOf(E) ==
    CASE E = "CustomException" -> "std::runtime_error"
      [] E = "std::runtime_error" -> "std::exception"
      [] E = "std::logic_error" -> "std::exception"
      [] OTHER -> "none"

\* The handler catch (const T &) matches a thrown E when E is T or T is a
\* public base class of E.
RECURSIVE Matches(_, _)
Matches(T, E) ==
    \/ E = T
    \/ BaseOf(E) # "none" /\ Matches(T, BaseOf(E))

\* The handlers of a try block are tried in order: the position of the
\* first that matches the thrown exception, 0 when none does and the
\* exception leaves the function. "..." is catch (...).
RECURSIVE FirstHandler(_, _, _)
FirstHandler(handlers, thrown, k) ==
    IF k > Len(handlers) THEN 0
    ELSE IF handlers[k] = "..." \/ Matches(handlers[k], thrown) THEN k
    ELSE FirstHandler(handlers, thrown, k + 1)

\* A try block without the catch (...) handler.
Handlers_Any_None == <<>>

\* AssertException, lines 885-892: the handlers of the try block.
Handlers_Any == <<"...">>

\* AssertException, lines 881-898: function() is called once; ret is
\* "thrown" when the exception leaves the function.
AssertException(line, throws) ==
    IF throws = "nothing"
    THEN [ret |-> "false",
          lines |-> PrintAssertFailed(File, line) \o
                    <<ValueLine(ExpectText, "stream", "any exception thrown"),
                      ValueLine(ActualText, "stream", "no exception thrown")>>]
    ELSE IF FirstHandler(Handlers_Any, throws, 1) = 0
    THEN [ret |-> "thrown", lines |-> <<>>]
    ELSE [ret |-> "true", lines |-> <<>>]

\* The typed handler alone.
Handlers_E_Typed(T) == <<T>>

\* AssertException<T>, lines 1065-1077: catch (const T &), then catch (...).
Handlers_E(T) == <<T, "...">>

\* AssertException<T>, lines 1055-1096: exception_thrown and
\* expected_exception are set by the handler entered.
AssertException_E(line, throws, T) ==
    LET handler ==
            IF throws = "nothing" THEN 0
            ELSE FirstHandler(Handlers_E(T), throws, 1)
        exception_thrown == handler # 0
        expected_exception == handler = 1
    IN
    IF throws # "nothing" /\ handler = 0
    THEN [ret |-> "thrown", lines |-> <<>>]
    ELSE IF ~expected_exception
    THEN [ret |-> "false",
          lines |-> PrintAssertFailed(File, line) \o
                    <<ValueLine(ExpectText, "stream",
                                "exception of type " \o T),
                      ValueLine(ActualText, "stream",
                                IF exception_thrown
                                THEN "some other exception thrown"
                                ELSE "no exception thrown")>>]
    ELSE [ret |-> "true", lines |-> <<>>]

\* ------------------------------------------------------- integer operands
\* The integer types of the operands (LP64: int is 32 bits, long 64;
\* std::uint32_t is unsigned int, std::uint64_t is unsigned long).
IntTypes ==
    {"signed char", "unsigned char", "short", "unsigned short", "int",
     "unsigned int", "long", "unsigned long"}

\* sizeof, in octets.
SizeOf(T) ==
    CASE T \in {"signed char", "unsigned char"} -> 1
      [] T \in {"short", "unsigned short"} -> 2
      [] T \in {"int", "unsigned int"} -> 4
      [] OTHER -> 8

IsSigned(T) == T \in {"signed char", "short", "int", "long"}

\* The integer conversion rank.
Rank(T) ==
    CASE T \in {"signed char", "unsigned char"} -> 1
      [] T \in {"short", "unsigned short"} -> 2
      [] T \in {"int", "unsigned int"} -> 3
      [] OTHER -> 4

UnsignedOf(T) ==
    CASE T = "int" -> "unsigned int"
      [] T = "long" -> "unsigned long"
      [] OTHER -> T

\* Integral promotion: a type of lower rank than int becomes int.
Promoted(T) == IF Rank(T) < Rank("int") THEN "int" ELSE T

\* The usual arithmetic conversions: the type both operands of a comparison
\* are converted to.
UsualArithmetic(T, U) ==
    LET P == Promoted(T)
        Q == Promoted(U)
        s == IF IsSigned(P) THEN P ELSE Q
        u == IF IsSigned(P) THEN Q ELSE P
    IN
    IF P = Q THEN P
    ELSE IF IsSigned(P) = IsSigned(Q)
         THEN (IF Rank(P) >= Rank(Q) THEN P ELSE Q)
    ELSE IF Rank(u) >= Rank(s) THEN u
    ELSE IF SizeOf(s) > SizeOf(u) THEN s
    ELSE UnsignedOf(s)

\* An integer value is its octets, most significant first.
Fill(n, octet) == [i \in 1..n |-> octet]

\* Conversion of the octets of a T to a U: truncation to the low octets, or
\* sign extension (T signed) or zero extension (T unsigned).
Convert(bits, T, U) ==
    IF SizeOf(U) <= SizeOf(T)
    THEN SubSeq(bits, SizeOf(T) - SizeOf(U) + 1, SizeOf(T))
    ELSE Fill(SizeOf(U) - SizeOf(T),
              IF IsSigned(T) /\ bits[1] >= 128 THEN 255 ELSE 0) \o bits

\* Octets in the order of the values of type T: a signed type orders the
\* patterns with the sign bit set first.
OrderKey(bits, T) ==
    IF IsSigned(T) THEN [bits EXCEPT ![1] = (@ + 128) % 256] ELSE bits

RECURSIVE LessOctets(_, _, _)
LessOctets(a, b, k) ==
    IF k > Len(a) THEN FALSE
    ELSE IF a[k] # b[k] THEN a[k] < b[k]
    ELSE LessOctets(a, b, k + 1)

\* The operands of a comparison are typed values: the octets of an
\* integer, or for any other type a number that stands for the value
\* (compared as the type's own operators compare it).
Value(T, v) == [type |-> T, val |-> v]

\* Both operands are taken as values of the left operand's type.
InCommonType_Left(x, y) ==
    [type |-> x.type, l |-> x.val, r |-> Convert(y.val, y.type, x.type)]

\* Both operands converted to the type of the usual arithmetic conversions.
InCommonType(x, y) ==
    LET C == UsualArithmetic(x.type, y.type) IN
    [type |-> C, l |-> Convert(x.val, x.type, C),
     r |-> Convert(y.val, y.type, C)]

\* x == y and x < y as the language evaluates them.
Equal(x, y) ==
    IF x.type \in IntTypes
    THEN LET c == InCommonType(x, y) IN c.l = c.r
    ELSE x.val = y.val

Less(x, y) ==
    IF x.type \in IntTypes
    THEN LET c == InCommonType(x, y) IN
         LessOctets(OrderKey(c.l, c.type), OrderKey(c.r, c.type), 1)
    ELSE x.val < y.val

\* The condition of each comparison macro, lines 147-192.
Condition(kind, a, b) ==
    CASE kind = "EQ" -> Equal(a, b)
      [] kind = "NE" -> ~Equal(a, b)
      [] kind = "GT" -> Less(b, a)
      [] kind = "GE" -> ~Less(a, b)
      [] kind = "LT" -> Less(a, b)
      [] kind = "LE" -> ~Less(b, a)

\* ---------------------------------------------------------- value printer
\* The types with a PrintValue overload of their own (stf.h lines 346-506).
CharacterTypes ==
    {"char", "signed char", "unsigned char", "char8_t", "char16_t",
     "char32_t", "wchar_t"}

FloatTypes == {"float", "double", "long double"}

PointerTypes == {"int*", "const char*"}

ArrayTypes == {"int[4]", "char[4]"}

\* Class and enumeration types: with and without operator<<.
ObjectTypes ==
    {"std::string", "SomeObject", "enum Color", "enum class Mode",
     "std::nullptr_t"}

Types ==
    IntTypes \cup {"bool"} \cup CharacterTypes \cup FloatTypes
        \cup PointerTypes \cup ArrayTypes \cup ObjectTypes

\* <type_traits>.
IsIntegral(T) == T \in IntTypes \cup {"bool"} \cup CharacterTypes

IsFloatingPoint(T) == T \in FloatTypes

IsArray(T) == T \in ArrayTypes

IsPointer(T) == T \in PointerTypes

\* std::cout << value is well-formed: arithmetic types, pointers, arrays,
\* std::string, nullptr, and an unscoped enumeration (through its integral
\* promotion); not a class without operator<<, not a scoped enumeration.
Streamable(T) == T \notin {"SomeObject", "enum class Mode"}

\* The type deduced for a parameter passed by value: an array decays to a
\* pointer to its element.
Decay(T) ==
    CASE T = "int[4]" -> "int*"
      [] T = "char[4]" -> "const char*"
      [] OTHER -> T

\* The overloads without wchar_t.
NonTemplate_NoWide ==
    {"bool", "unsigned char", "char", "signed char", "char8_t", "char16_t",
     "char32_t"}

\* The non-template overloads PrintValue(const std::string &, P), stf.h
\* lines 346-506, by P.
NonTemplate ==
    {"bool", "unsigned char", "char", "signed char", "char8_t", "char16_t",
     "char32_t", "wchar_t"}

\* The function templates, stf.h lines 595-700.
Templates == {"generic", "pointer_or_array", "floating_point", "integral"}

\* The enable_if condition of each template for an argument of type T.
Enabled(template, T) ==
    CASE template = "generic" ->
             /\ ~IsIntegral(T)
             /\ ~IsFloatingPoint(T)
             /\ ~IsArray(T)
             /\ ~IsPointer(T)
      [] template = "pointer_or_array" ->
             IsArray(Decay(T)) \/ IsPointer(Decay(T))
      [] template = "floating_point" -> IsFloatingPoint(Decay(T))
      [] template = "integral" -> IsIntegral(Decay(T))

\* An argument of type T converts implicitly to the parameter type P:
\* arithmetic types and unscoped enumerations to every arithmetic type,
\* pointers and arrays to bool.
Converts(T, P) ==
    \/ T = P
    \/ IsIntegral(T) \/ IsFloatingPoint(T) \/ T = "enum Color"
    \/ P = "bool" /\ IsPointer(Decay(T))

\* The viable candidates for PrintValue(text, value) with value of type T,
\* each with the rank of its conversion (0 exact match, 1 conversion) and
\* whether it is a template.
Candidates(T) ==
    {[overload |-> P, rank |-> IF T = P THEN 0 ELSE 1, template |-> FALSE] :
        P \in {Q \in NonTemplate : Converts(T, Q)}}
    \cup
    {[overload |-> t, rank |-> 0, template |-> TRUE] :
        t \in {u \in Templates : Enabled(u, T)}}

\* Overload resolution: a candidate no other candidate is better than (a
\* better conversion, or the same conversion and not a template).
Better(c, d) ==
    \/ c.rank < d.rank
    \/ c.rank = d.rank /\ ~c.template /\ d.template

Resolved(T) ==
    {c \in Candidates(T) : \A d \in Candidates(T) : d = c \/ Better(c, d)}

\* The octets as hex digits, two per octet, most significant first.
RECURSIVE HexOf(_)
HexOf(bits) ==
    IF bits = <<>> THEN <<>>
    ELSE <<HexDigits[(Head(bits) \div 16) + 1],
           HexDigits[(Head(bits) % 16) + 1]>> \o HexOf(Tail(bits))

\* operator<< in std::hex: the digits of the value without leading zeros
\* (a single 0 for zero).
RECURSIVE Significant(_)
Significant(digits) ==
    IF Len(digits) > 1 /\ Head(digits) = "0" THEN Significant(Tail(digits))
    ELSE digits

\* std::setw(width) with std::setfill('0'): a minimum field width, filled
\* on the left; a longer text is not cut.
SetW(width, digits) ==
    IF Len(digits) >= width THEN digits
    ELSE [i \in 1..(width - Len(digits)) |-> "0"] \o digits

\* PrintValue for integral types, stf.h lines 688-700: the hex field is
\* std::hex << std::setw(sizeof(T) * 2) << +value, where +value is the
\* value after integral promotion, printed as the unsigned value of the
\* promoted type.
IntegralHex(T, bits) ==
    SetW(SizeOf(T) * 2, Significant(HexOf(Convert(bits, T, Promoted(T)))))

\* What the integral overload shows of a value: the value and its hex
\* field (of a value whose octets are modelled).
Integral(value) ==
    [type |-> value.type, val |-> value.val,
     hex |-> IF value.type \in IntTypes
             THEN IntegralHex(value.type, value.val)
             ELSE <<>>]

\* PrintValue(text, value): the line printed; "ill-formed" stands for a call
\* that does not compile (no candidate or an ambiguous call).
PrintValue(text, value) ==
    LET T == value.type
        best == Resolved(T)
        chosen == CHOOSE c \in best : TRUE
        o == chosen.overload
    IN
    IF Cardinality(best) # 1 THEN <<ValueLine(text, "ill-formed", value)>>
    ELSE IF o = "bool" THEN <<ValueLine(text, "boolalpha", value)>>
    ELSE IF o \in NonTemplate THEN <<ValueLine(text, "character", value)>>
    ELSE IF o = "integral"
    THEN <<ValueLine(text, "integral", Integral(value))>>
    ELSE IF o = "floating_point" THEN <<ValueLine(text, "floating", value)>>
    ELSE IF o = "pointer_or_array" THEN <<ValueLine(text, "address", value)>>
    ELSE IF Streamable(T) THEN <<ValueLine(text, "stream", value)>>
    ELSE <<ValueLine(text, "unprintable", value)>>

\* ExpectFail, stf.h lines 749-758.
ExpectFail(line, expected, actual) ==
    PrintAssertFailed(File, line) \o PrintValue(ExpectText, expected)
        \o PrintValue(ActualText, actual)

\* LhsRhsFail, stf.h lines 786-795.
LhsRhsFail(line, lhs, rhs) ==
    PrintAssertFailed(File, line) \o PrintValue(LHSText, lhs)
        \o PrintValue(RHSText, rhs)

\* AssertBoolean, lines 589-596.
AssertBoolean(line, value) ==
    IF value THEN [ret |-> "true", lines |-> <<>>]
    ELSE [ret |-> "false", lines |-> PrintAssertFailed(File, line)]

\* ------------------------------------------------------- floating point
\* A floating-point value: finite m * 2^e, an infinity (m is its sign), or
\* a NaN.
Float(m, e) == [cls |-> "finite", m |-> m, e |-> e]

Infinity(sign) == [cls |-> "infinite", m |-> sign, e |-> 0]

NaN == [cls |-> "nan", m |-> 0, e |-> 0]

\* The significand width and the largest exponent of m * 2^e of each format
\* (IEEE binary32, binary64, x87 extended).
Precision(T) ==
    CASE T = "float" -> 24
      [] T = "double" -> 53
      [] OTHER -> 64

MaxExponent(T) ==
    CASE T = "float" -> 104
      [] T = "double" -> 971
      [] OTHER -> 16320

Abs(n) == IF n < 0 THEN -n ELSE n

Sign(n) == IF n < 0 THEN -1 ELSE 1

RECURSIVE BitLength(_)
BitLength(n) == IF n = 0 THEN 0 ELSE 1 + BitLength(n \div 2)

\* The exact value d * 2^e rounded to the format of T: to the nearest
\* value, a tie to the even significand; beyond the largest finite value,
\* infinity.
Rounded(T, d, e) ==
    LET n == BitLength(Abs(d))
        s == n - Precision(T)
        q == Abs(d) \div 2^s
        rem == Abs(d) % 2^s
        up == rem > 2^(s - 1) \/ (rem = 2^(s - 1) /\ q % 2 = 1)
        m == IF up THEN q + 1 ELSE q
    IN
    IF s <= 0
    THEN (IF n + e > Precision(T) + MaxExponent(T)
          THEN Infinity(Sign(d)) ELSE Float(d, e))
    ELSE IF BitLength(m) + e + s > Precision(T) + MaxExponent(T)
    THEN Infinity(Sign(d))
    ELSE Float(Sign(d) * m, e + s)

\* lhs - rhs in the arithmetic of T.
Minus(T, lhs, rhs) ==
    IF lhs.cls = "nan" \/ rhs.cls = "nan" THEN NaN
    ELSE IF lhs.cls = "infinite"
    THEN (IF rhs.cls = "infinite" /\ rhs.m = lhs.m THEN NaN ELSE lhs)
    ELSE IF rhs.cls = "infinite" THEN Infinity(-rhs.m)
    ELSE LET e == Min(lhs.e, rhs.e) IN
         Rounded(T, lhs.m * 2^(lhs.e - e) - rhs.m * 2^(rhs.e - e), e)

\* fabsf, fabs, fabsl.
Fabs(x) ==
    IF x.cls = "finite" THEN Float(Abs(x.m), x.e)
    ELSE IF x.cls = "infinite" THEN Infinity(1)
    ELSE NaN

\* x < y: false when either is a NaN.
LessThan(x, y) ==
    IF x.cls = "nan" \/ y.cls = "nan" THEN FALSE
    ELSE IF x.cls = "infinite" THEN x.m < 0 /\ ~(y.cls = "infinite" /\ y.m < 0)
    ELSE IF y.cls = "infinite" THEN y.m > 0
    ELSE LET e == Min(x.e, y.e) IN
         x.m * 2^(x.e - e) < y.m * 2^(y.e - e)

\* The comparison taken as not strict.
Closer_NotStrict(x, y) == ~LessThan(y, x)

\* AssertClose, lines 634, 679, 724: fabs(lhs - rhs) < epsilon.
Closer(x, y) == LessThan(x, y)

\* AssertClose, lines 628-731: the three overloads differ in the type T of
\* their parameters only.
AssertClose(line, T, lhs, rhs, epsilon) ==
    IF Closer(Fabs(Minus(T, lhs, rhs)), epsilon)
    THEN [ret |-> "true", lines |-> <<>>]
    ELSE [ret |-> "false",
          lines |-> PrintAssertFailed(File, line)
                    \o PrintValue(LHSText, Value(T, lhs))
                    \o PrintValue(RHSText, Value(T, rhs))]

\* ------------------------------------------------------------ test body
\* What a step of the test body leaves alone: the controller, the registry
\* and the clock.
bodyFrame ==
    <<pc, registryVars, idx, test_mutex, cv_status, exit_status, timeVars,
      notified, results, pairVars>>

\* The body is between two statements and has one more to execute.
InBody == Alive /\ bpc = "next" /\ nstmt < MaxStmts

\* The assertion statement at line `line` of the body is reached and its
\* condition evaluated; r is what the evaluation returned and printed, n how
\* often it called the callable under test.
Evaluate(kind, a, b, c, r, n) ==
    /\ InBody
    /\ nstmt' = nstmt + 1
    /\ stmt' = Stmt(kind, a, b, c, r.ret)
    /\ fcalls' = n
    /\ out' = out \o r.lines
    /\ bpc' = "evaluated"
    /\ UNCHANGED <<Test_Failed, worker, trace, bodyFrame>>

\* The line of the next statement (__LINE__).
NextLine == nstmt + 1

\* STF_ASSERT_EQ, lines 146-152.
STF_ASSERT_EQ(expected, actual) ==
    Evaluate("EQ", expected, actual, 0,
             IF Condition("EQ", expected, actual)
             THEN [ret |-> "true", lines |-> <<>>]
             ELSE [ret |-> "false",
                   lines |-> ExpectFail(NextLine, expected, actual)],
             0)

\* The if block of STF_ASSERT_NE .. STF_ASSERT_LE, lines 155-197.
LhsRhsMacro(kind, a, b) ==
    Evaluate(kind, a, b, 0,
             IF Condition(kind, a, b)
             THEN [ret |-> "true", lines |-> <<>>]
             ELSE [ret |-> "false", lines |-> LhsRhsFail(NextLine, a, b)],
             0)

\* STF_ASSERT_NE, lines 155-161.
STF_ASSERT_NE(a, b) == LhsRhsMacro("NE", a, b)

\* STF_ASSERT_GT, lines 164-170.
STF_ASSERT_GT(a, b) == LhsRhsMacro("GT", a, b)

\* STF_ASSERT_GE, lines 173-179.
STF_ASSERT_GE(a, b) == LhsRhsMacro("GE", a, b)

\* STF_ASSERT_LT, lines 182-188.
STF_ASSERT_LT(a, b) == LhsRhsMacro("LT", a, b)

\* STF_ASSERT_LE, lines 191-197.
STF_ASSERT_LE(a, b) == LhsRhsMacro("LE", a, b)

\* STF_ASSERT_TRUE, lines 200-205: AssertBoolean(bool(a) == true).
STF_ASSERT_TRUE(a) ==
    Evaluate("TRUE", a, 0, 0, AssertBoolean(NextLine, a = TRUE), 0)

\* STF_ASSERT_FALSE, lines 208-213: AssertBoolean(bool(a) == false).
STF_ASSERT_FALSE(a) ==
    Evaluate("FALSE", a, 0, 0, AssertBoolean(NextLine, a = FALSE), 0)

\* STF_ASSERT_CLOSE, lines 216-221, on operands of type T.
STF_ASSERT_CLOSE(T, a, b, epsilon) ==
    Evaluate("CLOSE", Value(T, a), Value(T, b), Value(T, epsilon),
             AssertClose(NextLine, T, a, b, epsilon), 0)

\* STF_ASSERT_MEM_EQ, lines 224-229.
STF_ASSERT_MEM_EQ(a, b, size) ==
    Evaluate("MEM_EQ", a, b, size, AssertMemoryEqual(NextLine, a, b, size), 0)

\* STF_ASSERT_MEM_NE, lines 232-241.
STF_ASSERT_MEM_NE(a, b, size) ==
    Evaluate("MEM_NE", a, b, size,
             AssertMemoryNotEqual(NextLine, a, b, size), 0)

\* STF_ASSERT_EXCEPTION, lines 244-249; function throws `throws`.
STF_ASSERT_EXCEPTION(throws) ==
    Evaluate("EXCEPTION", throws, 0, 0, AssertException(NextLine, throws), 1)

\* STF_ASSERT_EXCEPTION_E, lines 252-258.
STF_ASSERT_EXCEPTION_E(throws, exception) ==
    Evaluate("EXCEPTION_E", throws, exception, 0,
             AssertException_E(NextLine, throws, exception), 1)

\* The flag is set although the condition held.
MacroContinues_SetsFailed ==
    /\ Alive
    /\ bpc = "evaluated"
    /\ stmt.result = "true"
    /\ bpc' = "next"
    /\ stmt' = NoStmt
    /\ fcalls' = 0
    /\ Test_Failed' = TRUE
    /\ UNCHANGED <<out, nstmt, worker, trace, bodyFrame>>

\* The condition held: the if block of the macro is skipped and the body
\* goes on with its next statement.
MacroContinues ==
    /\ Alive
    /\ bpc = "evaluated"
    /\ stmt.result = "true"
    /\ bpc' = "next"
    /\ stmt' = NoStmt
    /\ fcalls' = 0
    /\ UNCHANGED <<Test_Failed, out, nstmt, worker, trace, bodyFrame>>

\* The if block returns without setting the flag.
MacroSetsFailed_Forgets ==
    /\ Alive
    /\ bpc = "evaluated"
    /\ stmt.result = "false"
    /\ bpc' = "failed"
    /\ UNCHANGED <<Test_Failed, out, stmt, nstmt, fcalls, worker, trace,
                   bodyFrame>>

\* The if block of every macro: Terra::STF::Test_Failed = true.
MacroSetsFailed ==
    /\ Alive
    /\ bpc = "evaluated"
    /\ stmt.result = "false"
    /\ Test_Failed' = TRUE
    /\ bpc' = "failed"
    /\ UNCHANGED <<out, stmt, nstmt, fcalls, worker, trace, bodyFrame>>

\* The if block of every macro: return. The call test() of the worker
\* (line 999) is over.
MacroReturns ==
    /\ Alive
    /\ bpc = "failed"
    /\ bpc' = "returned"
    /\ worker' = [worker EXCEPT ![idx] = "end"]
    /\ trace' = Append(trace, Event("fail", idx, now))
    /\ UNCHANGED <<Test_Failed, out, stmt, nstmt, fcalls, bodyFrame>>

\* The body reaches its end (or a return statement of its own) after the
\* assertions so far held.
BodyReturns ==
    /\ Alive
    /\ bpc = "next"
    /\ bpc' = "returned"
    /\ worker' = [worker EXCEPT ![idx] = "end"]
    /\ trace' = Append(trace, Event("pass", idx, now))
    /\ UNCHANGED <<Test_Failed, out, stmt, nstmt, fcalls, bodyFrame>>

\* ------------------------------------------------------- operands drawn
\* Bit patterns of n octets: 0, 1, the largest and the smallest signed
\* value, all ones; 140 for one octet; for eight octets also the four-octet
\* patterns zero-extended.
Boundary(n) ==
    {Fill(n, 0), Fill(n - 1, 0) \o <<1>>, <<127>> \o Fill(n - 1, 255),
     <<128>> \o Fill(n - 1, 0), Fill(n, 255)}

Patterns(n) ==
    Boundary(n)
        \cup (IF n = 1 THEN {<<140>>} ELSE {})
        \cup (IF n = 8 THEN {Fill(4, 0) \o p : p \in Boundary(4)} ELSE {})

IntOperands ==
    UNION {{Value(T, v) : v \in Patterns(SizeOf(T))} : T \in IntTypes}

\* A signed char and an unsigned char holding the same octet.
SameOctetChars ==
    {<<Value("signed char", <<b>>), Value("unsigned char", <<b>>)>> :
        b \in 0..255}

\* Two values of one and the same type that is not one of IntTypes.
ObjectPairs ==
    {<<Value(T, v), Value(T, w)>> :
        T \in Types \ IntTypes, v \in {1, 2}, w \in {1, 2}}

ComparePairs ==
    (IntOperands \X IntOperands) \cup SameOctetChars \cup ObjectPairs

\* Floating-point operands: 0, 1, -1, 3, 0.5, 2^24, 2^24 + 2, 2^24 + 4,
\* the infinities and a NaN.
FloatOperands ==
    {Float(0, 0), Float(1, 0), Float(-1, 0), Float(3, 0), Float(1, -1),
     Float(1, 24), Float(8388609, 1), Float(4194305, 2), Infinity(1),
     Infinity(-1), NaN}

\* FLT_MAX, and the float literals of the test suite and of the
\* specification's examples: 100.00001f, 100.00002f, 0.0001f, 1.0f, 2.0f,
\* 0.1f, each the float nearest to the decimal.
FloatMax == Float(16777215, 104)

CloseExamples ==
    {<<"float", Float(13107201, -17), Float(13107203, -17),
       Float(13743895, -37)>>,
     <<"float", Float(1, 0), Float(2, 0), Float(13421773, -27)>>,
     <<"float", FloatMax, Float(-16777215, 104), FloatMax>>,
     <<"float", FloatMax, Float(-16777215, 104), Infinity(1)>>}

CloseOperands ==
    {<<T, a, b, e>> :
        T \in FloatTypes, a \in FloatOperands, b \in FloatOperands,
        e \in FloatOperands}
    \cup CloseExamples

\* Two buffers of the same length and a size within them.
MemoryOperands ==
    {<<a, b, n>> \in Buffers \X Buffers \X (0..MaxLen) :
        Len(a) = Len(b) /\ n <= Len(a)}

\* ------------------------------------------- specification of the body
\* What main has printed when the worker calls test(): the count of tests
\* (line 940) and "Running test: G::t" (line 986).
InitialOutput == <<Line("total", "", 1), Line("running", "G::t", 0)>>

\* The worker has just called test() for the only registered test.
InitAssert ==
    /\ pc = "wait"
    /\ Unit_Tests =
         [ptr |-> TRUE,
          vec |-> <<[name |-> "G::t", test |-> "f",
                     timeout |-> Default_Timeout]>>]
    /\ Unit_Test_Exclusions = [ptr |-> FALSE, vec |-> <<>>]
    /\ failed_registrations = 0
    /\ Test_Failed = FALSE
    /\ idx = 1
    /\ test_mutex = "free"
    /\ cv_status = "none"
    /\ worker = <<"body">>
    /\ now = 0
    /\ wait_start = 0
    /\ test_start_time = 0
    /\ test_end_time = 0
    /\ total_duration = 0
    /\ out = InitialOutput
    /\ exit_status = Running
    /\ trace = <<Event("invoke", 1, 0)>>
    /\ notified = {}
    /\ results = <<>>
    /\ run = 1
    /\ exit1 = Running
    /\ results1 = <<>>
    /\ tests1 = <<>>
    /\ calls = [reg |-> <<[name |-> "G::t", test |-> "f",
                           timeout |-> Default_Timeout, ret |-> 1]>>,
                excl |-> <<>>, failed |-> <<>>]
    /\ stmt = NoStmt
    /\ bpc = "next"
    /\ nstmt = 0
    /\ fcalls = 0

NextAssert ==
    \/ InBody /\ \E p \in ComparePairs : STF_ASSERT_EQ(p[1], p[2])
    \/ InBody /\ \E p \in ComparePairs : STF_ASSERT_NE(p[1], p[2])
    \/ InBody /\ \E p \in ComparePairs : STF_ASSERT_GT(p[1], p[2])
    \/ InBody /\ \E p \in ComparePairs : STF_ASSERT_GE(p[1], p[2])
    \/ InBody /\ \E p \in ComparePairs : STF_ASSERT_LT(p[1], p[2])
    \/ InBody /\ \E p \in ComparePairs : STF_ASSERT_LE(p[1], p[2])
    \/ InBody /\ \E a \in BOOLEAN : STF_ASSERT_TRUE(a)
    \/ InBody /\ \E a \in BOOLEAN : STF_ASSERT_FALSE(a)
    \/ InBody /\ \E p \in CloseOperands :
                     STF_ASSERT_CLOSE(p[1], p[2], p[3], p[4])
    \/ InBody /\ \E p \in MemoryOperands :
                     STF_ASSERT_MEM_EQ(p[1], p[2], p[3])
    \/ InBody /\ \E p \in MemoryOperands :
                     STF_ASSERT_MEM_NE(p[1], p[2], p[3])
    \/ InBody /\ \E throws \in Throws : STF_ASSERT_EXCEPTION(throws)
    \/ InBody /\ \E throws \in Throws, exception \in ExceptionTypes :
                     STF_ASSERT_EXCEPTION_E(throws, exception)
    \/ MacroContinues
    \/ MacroSetsFailed
    \/ MacroReturns
    \/ BodyReturns

SpecAssert == InitAssert /\ [][NextAssert]_vars

\* ------------------------------------------------------- specifications
\* The names stored by ExcludeTest.
ExcludedNames ==
    {Unit_Test_Exclusions.vec[k] : k \in 1..Len(Unit_Test_Exclusions.vec)}

Register ==
    \E name \in Names, test \in Functions, timeout \in Timeouts,
       fault \in {"none", "alloc", "emplace"} :
        RegisterTest(name, test, timeout, fault)

Exclude ==
    \E name \in Names, fault \in {"none", "alloc", "emplace"} :
        ExcludeTest(name, fault)

Controller ==
    \/ EnterMain
    \/ MainStart
    \/ NextTest
    \/ AllPassed
    \/ Spawn
    \/ SpawnFails
    \/ WaitBegin
    \/ WaitReturn
    \/ TimeoutExit
    \/ Join
    \/ AfterJoin

Worker ==
    \/ \E i \in 1..Len(worker) : WorkerStart(i)
    \/ \E i \in 1..Len(worker), d \in 0..MaxDur, how \in Outcomes :
           BodyEnds(i, d, how)
    \/ \E i \in 1..Len(worker) : BodyHangs(i)
    \/ \E i \in 1..Len(worker) : WorkerEndTime(i)
    \/ \E i \in 1..Len(worker) : WorkerLock(i)
    \/ \E i \in 1..Len(worker) : WorkerNotify(i)

Next ==
    \/ Register
    \/ Exclude
    \/ Controller
    \/ Worker
    \/ SpuriousWake
    \/ TimerExpires

Spec == Init /\ [][Next]_vars

\* The threads are scheduled and the clock advances; a spurious wake-up is
\* possible but never owed.
FairSpec ==
    /\ Spec
    /\ WF_vars(Controller)
    /\ WF_vars(Worker)
    /\ WF_vars(TimerExpires)

NotExcluded(t) == t.name \notin ExcludedNames

\* The same program run a second time with the excluded tests taken out of
\* the registry: a fresh process, entered at main(). Only a run that had an
\* excluded test is run again (the registry is the same otherwise).
Rerun ==
    /\ pc = "exited"
    /\ run = 1
    /\ \E i \in 1..Len(Tests) : Tests[i].name \in ExcludedNames
    /\ run' = 2
    /\ exit1' = exit_status
    /\ results1' = results
    /\ tests1' = Unit_Tests.vec
    /\ Unit_Tests' = [Unit_Tests EXCEPT !.vec = SelectSeq(@, NotExcluded)]
    /\ pc' = "main"
    /\ Test_Failed' = FALSE
    /\ idx' = 0
    /\ test_mutex' = "free"
    /\ cv_status' = "none"
    /\ worker' = <<>>
    /\ now' = 0
    /\ wait_start' = 0
    /\ test_start_time' = 0
    /\ test_end_time' = 0
    /\ total_duration' = 0
    /\ out' = <<>>
    /\ exit_status' = Running
    /\ trace' = <<>>
    /\ notified' = {}
    /\ results' = <<>>
    /\ UNCHANGED <<Unit_Test_Exclusions, failed_registrations, calls>>
    /\ UNCHANGED assertVars

NextPair == Next \/ Rerun

SpecPair == Init /\ [][NextPair]_vars

RegisteredNames == {Tests[i].name : i \in 1..Len(Tests)}

Registered(name) == name \in RegisteredNames

\* The same program run a second time with the exclusions that name no
\* registered test taken out of the exclusion list: a fresh process, entered
\* at main(). Only a run that had such an exclusion is run again.
RerunUnmatched ==
    /\ pc = "exited"
    /\ run = 1
    /\ \E name \in ExcludedNames : ~Registered(name)
    /\ run' = 2
    /\ exit1' = exit_status
    /\ results1' = results
    /\ tests1' = Unit_Tests.vec
    /\ Unit_Test_Exclusions' =
         [Unit_Test_Exclusions EXCEPT !.vec = SelectSeq(@, Registered)]
    /\ pc' = "main"
    /\ Test_Failed' = FALSE
    /\ idx' = 0
    /\ test_mutex' = "free"
    /\ cv_status' = "none"
    /\ worker' = <<>>
    /\ now' = 0
    /\ wait_start' = 0
    /\ test_start_time' = 0
    /\ test_end_time' = 0
    /\ total_duration' = 0
    /\ out' = <<>>
    /\ exit_status' = Running
    /\ trace' = <<>>
    /\ notified' = {}
    /\ results' = <<>>
    /\ UNCHANGED <<Unit_Tests, failed_registrations, calls>>
    /\ UNCHANGED assertVars

NextUnmatched == Next \/ RerunUnmatched

SpecUnmatched == Init /\ [][NextUnmatched]_vars

\* The registries the STF_TEST macros can have built when static
\* initialisation is over: up to MaxTests tests with the default timeout.
Registries ==
    UNION {[1..n -> [name : Names, test : Functions,
                     timeout : {Default_Timeout}]] : n \in 1..MaxTests}

\* The exclusion lists the STF_TEST_EXCLUDE macros can have built: the
\* names in the order of the calls, a name possibly more than once.
ExclusionLists == UNION {[1..n -> Names] : n \in 0..(MaxExclusions + 1)}

\* Static initialisation is over: every RegisterTest and ExcludeTest call
\* has been made and none failed.
InitOrder ==
    /\ pc = "static_init"
    /\ \E tests \in Registries, exclusions \in ExclusionLists :
           /\ Unit_Tests = [ptr |-> TRUE, vec |-> tests]
           /\ Unit_Test_Exclusions =
                  [ptr |-> exclusions # <<>>, vec |-> exclusions]
           /\ calls =
                  [reg |-> [k \in DOMAIN tests |->
                               [name |-> tests[k].name,
                                test |-> tests[k].test,
                                timeout |-> tests[k].timeout, ret |-> k]],
                   excl |-> [k \in DOMAIN exclusions |->
                                [name |-> exclusions[k], ret |-> TRUE]],
                   failed |-> <<>>]
    /\ failed_registrations = 0
    /\ Test_Failed = FALSE
    /\ idx = 0
    /\ test_mutex = "free"
    /\ cv_status = "none"
    /\ worker = <<>>
    /\ now = 0
    /\ wait_start = 0
    /\ test_start_time = 0
    /\ test_end_time = 0
    /\ total_duration = 0
    /\ out = <<>>
    /\ exit_status = Running
    /\ trace = <<>>
    /\ notified = {}
    /\ results = <<>>
    /\ run = 1
    /\ exit1 = Running
    /\ results1 = <<>>
    /\ tests1 = <<>>
    /\ stmt = NoStmt
    /\ bpc = "idle"
    /\ nstmt = 0
    /\ fcalls = 0

\* The exclusion lists that the same ExcludeTest calls made in another
\* order, or made again, would have built: the same names, in any order
\* and any number of times.
Reorderings(list) ==
    {s \in ExclusionLists :
        {s[k] : k \in DOMAIN s} = {list[k] : k \in DOMAIN list}} \ {list}

\* The same program run a second time with its ExcludeTest calls made in
\* another order or repeated: a fresh process, entered at main().
RerunReordered ==
    /\ pc = "exited"
    /\ run = 1
    /\ \E list \in Reorderings(Unit_Test_Exclusions.vec) :
           /\ Unit_Test_Exclusions' = [Unit_Test_Exclusions EXCEPT !.vec = list]
           /\ calls' = [calls EXCEPT !.excl =
                           [k \in DOMAIN list |->
                               [name |-> list[k], ret |-> TRUE]]]
    /\ run' = 2
    /\ exit1' = exit_status
    /\ results1' = results
    /\ tests1' = Unit_Tests.vec
    /\ pc' = "main"
    /\ Test_Failed' = FALSE
    /\ idx' = 0
    /\ test_mutex' = "free"
    /\ cv_status' = "none"
    /\ worker' = <<>>
    /\ now' = 0
    /\ wait_start' = 0
    /\ test_start_time' = 0
    /\ test_end_time' = 0
    /\ total_duration' = 0
    /\ out' = <<>>
    /\ exit_status' = Running
    /\ trace' = <<>>
    /\ notified' = {}
    /\ results' = <<>>
    /\ UNCHANGED <<Unit_Tests, failed_registrations>>
    /\ UNCHANGED assertVars

NextOrder ==
    \/ Controller
    \/ Worker
    \/ SpuriousWake
    \/ TimerExpires
    \/ RerunReordered

SpecOrder == InitOrder /\ [][NextOrder]_vars

\* FriendlyDuration, lines 145-178, of a duration in nanoseconds: the unit
\* printed and the number printed before it, in thousandths (the count
\* after duration_cast, which truncates, is divided by 1000.0).
FriendlyDuration(duration) ==
    IF duration >= 1000000000
    THEN [unit |-> "s", thousandths |-> duration \div 1000000]
    ELSE IF duration >= 1000000
    THEN [unit |-> "ms", thousandths |-> duration \div 1000]
    ELSE [unit |-> "us", thousandths |-> duration]

\* The durations a test is taken to last, in nanoseconds: 10^e and
\* 2 * 10^e for e up to 9, and the values next to them.
Durations ==
    {d \in {m * (10 ^ e) + j : m \in 1..2, e \in 0..9, j \in -2..2} : d >= 0}

\* The only registered test has passed and its thread is joined; the clock
\* counts nanoseconds and the body took any of Durations.
InitDuration ==
    /\ pc = "joined"
    /\ Unit_Tests =
         [ptr |-> TRUE,
          vec |-> <<[name |-> "G::t", test |-> "f",
                     timeout |-> Default_Timeout]>>]
    /\ Unit_Test_Exclusions = [ptr |-> FALSE, vec |-> <<>>]
    /\ failed_registrations = 0
    /\ Test_Failed = FALSE
    /\ idx = 1
    /\ test_mutex = "main"
    /\ cv_status = "no_timeout"
    /\ worker = <<"joined">>
    /\ now \in Durations
    /\ wait_start = 0
    /\ test_start_time = 0
    /\ test_end_time = now
    /\ total_duration = 0
    /\ out = InitialOutput
    /\ exit_status = Running
    /\ trace = <<Event("invoke", 1, 0), Event("pass", 1, now)>>
    /\ notified = {1}
    /\ results = <<>>
    /\ run = 1
    /\ exit1 = Running
    /\ results1 = <<>>
    /\ tests1 = <<>>
    /\ calls = [reg |-> <<[name |-> "G::t", test |-> "f",
                           timeout |-> Default_Timeout, ret |-> 1]>>,
                excl |-> <<>>, failed |-> <<>>]
    /\ stmt = NoStmt
    /\ bpc = "idle"
    /\ nstmt = 0
    /\ fcalls = 0

\* main, lines 1042-1060 with the text of the duration: the test passed;
\* its duration is printed by FriendlyDuration and added to the total.
ReportDuration ==
    /\ pc = "joined"
    /\ ~TestFailedObserved
    /\ test_mutex' = "free"
    /\ cv_status' = "none"
    /\ LET text == FriendlyDuration(test_end_time - test_start_time) IN
         out' = Append(out, Line("duration", text.unit, text.thousandths))
    /\ total_duration' = total_duration + (test_end_time - test_start_time)
    /\ results' = Append(results, Result("ok", idx))
    /\ idx' = NextIndex
    /\ pc' = "loop"
    /\ UNCHANGED <<registryVars, Test_Failed, worker, exit_status>>
    /\ UNCHANGED <<now, wait_start, test_start_time, test_end_time>>
    /\ UNCHANGED <<trace, notified, pairVars, assertVars>>

\* main, lines 1075-1079 with the text of the duration: the total is
\* printed by FriendlyDuration and main returns 0.
ReportTotal ==
    /\ pc = "loop"
    /\ idx > Len(Tests)
    /\ LET text == FriendlyDuration(total_duration) IN
         out' = Append(out, Line("all_passed", text.unit, text.thousandths))
    /\ Exit(EXIT_SUCCESS)
    /\ UNCHANGED <<registryVars, Test_Failed, idx, test_mutex, cv_status,
                   worker>>
    /\ UNCHANGED <<timeVars, histVars, pairVars, assertVars>>

NextDuration == ReportDuration \/ ReportTotal

SpecDuration == InitDuration /\ [][NextDuration]_vars

\* The whole program, and beside it the run whose only test body is
\* followed statement by statement while the controller supervises it.
InitAll == Init \/ InitAssert

NextAll == Next \/ NextAssert

SpecAll == InitAll /\ [][NextAll]_vars

\* ------------------------------------------------------------- properties
WorkerState(i) == IF i \in DOMAIN worker THEN worker[i] ELSE "none"

CountKind(seq, kind) == Cardinality({k \in DOMAIN seq : seq[k].kind = kind})

IsPrefix(s, t) ==
    /\ Len(s) <= Len(t)
    /\ \A k \in 1..Len(s) : s[k] = t[k]

Exited == pc = "exited"

\* The invocations a complete run makes: every entry whose name is not in
\* the exclusion list, once, in registration order.
RECURSIVE ExpectedFrom(_)
ExpectedFrom(i) ==
    IF i > Len(Tests) THEN <<>>
    ELSE IF Tests[i].name \in ExcludedNames THEN ExpectedFrom(i + 1)
    ELSE <<Result("invoke", i), Result("return", i)>> \o ExpectedFrom(i + 1)

TraceShape ==
    [k \in 1..Len(trace) |->
        Result(IF trace[k].kind = "invoke" THEN "invoke" ELSE "return",
               trace[k].test)]

HasResult(kind, i) == \E k \in DOMAIN results : results[k] = Result(kind, i)

Invoked(i) == \E k \in DOMAIN trace : trace[k].test = i

\* C1: a test whose body never returns: once the controller waits for it,
\* the process eventually terminates with a failure exit status, however
\* the timed wait returns (checked under FairSpec).
C1_HungTestTerminates ==
    (pc = "wait" /\ worker[idx] = "hung")
        ~> (Exited /\ exit_status = EXIT_FAILURE)

\* C2: the exit status is 0 exactly when a test is registered, no
\* registration failed, and every test that is not excluded had its worker
\* signal completion without a timeout and with Test_Failed still false;
\* otherwise it is EXIT_FAILURE.
WorkerCompletedInTime(i) == i \in notified /\ ~HasResult("timeout", i)

C2_ExitZeroIff ==
    Exited =>
        /\ exit_status \in {EXIT_SUCCESS, EXIT_FAILURE}
        /\ exit_status = EXIT_SUCCESS <=>
             /\ Len(Tests) >= 1
             /\ failed_registrations = 0
             /\ ~Test_Failed
             /\ \A i \in 1..Len(Tests) :
                    Tests[i].name \notin ExcludedNames
                        => WorkerCompletedInTime(i)

C2_Witness ==
    /\ Exited
    /\ exit_status = EXIT_SUCCESS
    /\ Len(Tests) = 2
    /\ Tests[1].name \in ExcludedNames
    /\ notified = {2}

C4_FirstFailureEndsRun ==
    \A i \in 1..Len(Tests) :
        HasResult("failed", i) =>
            /\ Exited
            /\ exit_status = EXIT_FAILURE
            /\ results[Len(results)] = Result("failed", i)
            /\ \A j \in (i + 1)..Len(Tests) :
                   WorkerState(j) = "none" /\ ~Invoked(j)
            /\ CountKind(out, "duration") = CountKind(results, "ok")
            /\ CountKind(results, "ok") =
                 Cardinality({j \in 1..(i - 1) :
                                 Tests[j].name \notin ExcludedNames})
            /\ CountKind(out, "all_passed") = 0

C4_Witness ==
    /\ Len(Tests) = 2
    /\ HasResult("failed", 1)
    /\ Tests[2].name \notin ExcludedNames

\* C5: an entry whose name is in the exclusion list never has a worker
\* thread and its body is never invoked; it is never announced as running,
\* and once the loop is past it an "excluding" line names it.
C5_ExcludedNeverRuns ==
    \A i \in 1..Len(Tests) :
        (pc \notin {"static_init", "main"}
            /\ Tests[i].name \in ExcludedNames) =>
            /\ WorkerState(i) = "none"
            /\ ~Invoked(i)
            /\ \A k \in DOMAIN out :
                   out[k].kind = "running" => out[k].name # Tests[i].name
            /\ (i < idx) =>
                   \E k \in DOMAIN out :
                       out[k] = Line("excluding", Tests[i].name, 0)

C5_Witness ==
    /\ Exited
    /\ exit_status = EXIT_SUCCESS
    /\ Len(Tests) = 2
    /\ Tests[2].name \in ExcludedNames
    /\ Invoked(1)

\* C6: (under SpecPair) run 2 is run 1 with the excluded entries taken
\* out of the registry. Original claim: whenever both runs end and the
\* tests they both ran behaved alike, the two exit statuses are equal.
SameBehaviour ==
    \A k \in 1..Min(Len(results), Len(results1)) :
        results[k].kind = results1[k].kind

C6_ExcludedNeverAffectExit ==
    (run = 2 /\ Exited /\ SameBehaviour) => exit_status = exit1

\* C6 as amended: the same, except when run 1 had a non-empty registry with
\* every entry excluded and no failed registration (run 1 then exits 0, and
\* run 2, left with no registered test, exits with EXIT_FAILURE).
AllExcluded1 ==
    /\ Len(tests1) >= 1
    /\ failed_registrations = 0
    /\ \A i \in 1..Len(tests1) : tests1[i].name \in ExcludedNames

C6_ExcludedNeverAffectExitUnlessAll ==
    (run = 2 /\ Exited /\ SameBehaviour) =>
        IF AllExcluded1
        THEN exit1 = EXIT_SUCCESS /\ exit_status = EXIT_FAILURE
        ELSE exit_status = exit1

C6_Witness ==
    /\ run = 2
    /\ Exited
    /\ exit_status = EXIT_SUCCESS
    /\ Len(tests1) = 2
    /\ Len(Tests) = 1
    /\ tests1[1].name \in ExcludedNames
    /\ Len(results) = 1
    /\ Len(results1) = 1

\* C7: once wait_for has returned timeout for the test at idx, the
\* controller's only step is to print the timeout line and exit with
\* EXIT_FAILURE: no later entry gets a worker or an invocation, the test is
\* never joined or given a result other than timeout, only the tests that
\* passed before it have a duration line, and no summary line is printed.
TimeoutDetected == cv_status = "timeout" /\ pc \notin {"wait", "woken"}

C7_TimeoutOnlyTerminates ==
    TimeoutDetected =>
        /\ pc \in {"timedout", "exited"}
        /\ Exited =>
             /\ exit_status = EXIT_FAILURE
             /\ out[Len(out)] =
                  Line("timeout", Tests[idx].name, Tests[idx].timeout)
             /\ results[Len(results)] = Result("timeout", idx)
        /\ \A j \in (idx + 1)..Len(Tests) :
               WorkerState(j) = "none" /\ ~Invoked(j)
        /\ WorkerState(idx) # "joined"
        /\ ~HasResult("ok", idx)
        /\ ~HasResult("failed", idx)
        /\ CountKind(out, "duration") = CountKind(results, "ok")
        /\ CountKind(results, "ok") =
             Cardinality({j \in 1..(idx - 1) :
                             Tests[j].name \notin ExcludedNames})
        /\ CountKind(out, "all_passed") = 0

C7_Witness ==
    /\ Exited
    /\ HasResult("timeout", 1)
    /\ Len(Tests) = 2
    /\ WorkerState(1) = "done"
    /\ Tests[2].name \notin ExcludedNames

\* C8: at most one worker thread exists at any time; an entry has a worker
\* only when every earlier entry either never had one (it is excluded) or
\* had its worker signal completion and be joined; after a timeout no later
\* entry ever has a worker.
LiveWorkers == {i \in DOMAIN worker : worker[i] \notin {"none", "joined"}}

C8_OneWorkerAtATime ==
    /\ Cardinality(LiveWorkers) <= 1
    /\ \A j \in DOMAIN worker :
           worker[j] # "none" =>
               \A i \in 1..(j - 1) :
                   \/ worker[i] = "none" /\ Tests[i].name \in ExcludedNames
                   \/ worker[i] = "joined" /\ i \in notified
    /\ \A i \in DOMAIN worker :
           (HasResult("timeout", i) \/ (TimeoutDetected /\ idx = i)) =>
               \A j \in (i + 1)..Len(Tests) : WorkerState(j) = "none"

C8_Witness ==
    /\ Len(Tests) = 2
    /\ WorkerState(1) = "joined"
    /\ WorkerState(2) = "body"

\* C9: once a body has thrown (std::exception or anything else), Test_Failed
\* is set and the matching "unexpected exception" line is printed, the worker
\* goes on with its epilogue (it records an end time not before the throw
\* and, when it finishes, has notified the controller), the test is
\* never counted as passed, and the process never ends with any status but
\* EXIT_FAILURE.
Thrown(i, how) ==
    \E k \in DOMAIN trace : trace[k].kind = how /\ trace[k].test = i

ThrowTime(i, how) ==
    trace[CHOOSE k \in DOMAIN trace :
              trace[k].kind = how /\ trace[k].test = i].at

PreconditionViolated ==
    \/ ~Unit_Tests.ptr
    \/ Len(Tests) = 0
    \/ failed_registrations # 0

C10_PreconditionsAbortBeforeAnyTest ==
    (pc \notin {"static_init", "main"} /\ PreconditionViolated) =>
        /\ Exited
        /\ exit_status = EXIT_FAILURE
        /\ trace = <<>>
        /\ results = <<>>
        /\ notified = {}
        /\ \A i \in DOMAIN worker : worker[i] = "none"
        /\ Len(out) = 1
        /\ out[1].kind \in {"no_tests", "failed_to_register"}

C10_Witness ==
    /\ Exited
    /\ failed_registrations = 1
    /\ Len(Tests) = 2
    /\ Tests[1].name \notin ExcludedNames
    /\ out[1] = Line("failed_to_register", "", 1)

\* C12: a RegisterTest or ExcludeTest call that fails internally is
\* captured: static initialisation goes on (nothing reaches the caller, the
\* process neither ends nor leaves static initialisation), the count of
\* failed registrations grows by exactly one, the value returned is the
\* sentinel (0 from RegisterTest, false from ExcludeTest), and the test
\* vector and the exclusion vector hold what they held before the call;
\* the count changes in no other step.
FailedCall == Len(calls'.failed) = Len(calls.failed) + 1

LastFailed == calls'.failed[Len(calls'.failed)]

C12_FailedCallIsCaptured ==
    [][/\ FailedCall =>
             /\ pc' = "static_init"
             /\ exit_status' = Running
             /\ failed_registrations' = failed_registrations + 1
             /\ LastFailed.op = "RegisterTest" => LastFailed.ret = 0
             /\ LastFailed.op = "ExcludeTest" => LastFailed.ret = FALSE
             /\ Unit_Tests'.vec = Unit_Tests.vec
             /\ Unit_Test_Exclusions'.vec = Unit_Test_Exclusions.vec
             /\ calls'.reg = calls.reg
             /\ calls'.excl = calls.excl
       /\ failed_registrations' # failed_registrations => FailedCall]_vars

C12_Witness ==
    /\ failed_registrations = 1
    /\ Len(calls.failed) = 1
    /\ calls.failed[1].op = "ExcludeTest"
    /\ Len(Tests) = 2
    /\ Unit_Test_Exclusions = [ptr |-> TRUE, vec |-> <<>>]

\* C13: after any sequence of RegisterTest and ExcludeTest calls the test
\* vector is exactly the successfully registered (name, test, timeout)
\* triples in call order, the k-th successful RegisterTest returned k (never
\* the sentinel 0), and the exclusion vector is exactly the successfully
\* excluded names in call order: neither call touches the other's vector,
\* and a failed call takes no identifier.
C13_RegistryIsSuccessfulCallsInOrder ==
    /\ Len(Tests) = Len(calls.reg)
    /\ \A k \in 1..Len(calls.reg) :
           /\ Tests[k] = [name |-> calls.reg[k].name,
                          test |-> calls.reg[k].test,
                          timeout |-> calls.reg[k].timeout]
           /\ calls.reg[k].ret = k
           /\ calls.reg[k].ret # 0
    /\ Len(Unit_Test_Exclusions.vec) = Len(calls.excl)
    /\ \A k \in 1..Len(calls.excl) :
           /\ Unit_Test_Exclusions.vec[k] = calls.excl[k].name
           /\ calls.excl[k].ret = TRUE
    /\ Len(calls.reg) >= 1 => Unit_Tests.ptr
    /\ Len(calls.excl) >= 1 => Unit_Test_Exclusions.ptr

C13_Witness ==
    /\ pc = "static_init"
    /\ Len(calls.reg) = 2
    /\ calls.reg[2].ret = 2
    /\ calls.reg[1].timeout = 1
    /\ calls.reg[2].timeout = Default_Timeout
    /\ Len(calls.excl) = 1
    /\ Len(calls.failed) = 1
    /\ calls.failed[1].op = "RegisterTest"

\* C14: (under SpecUnmatched) a registered test is skipped exactly when some
\* entry of the exclusion list equals its name character for character: an
\* entry that differs from it in letter case only does not skip it. Run 2 is
\* run 1 without the exclusions that name no registered test: when both runs
\* end and the tests behaved alike, the controller saw the same tests with
\* the same results and the exit status is the same.
Ran(i) == WorkerState(i) # "none"

Skipped(i) ==
    /\ ~Ran(i)
    /\ ~Invoked(i)
    /\ \E k \in DOMAIN out : out[k] = Line("excluding", Tests[i].name, 0)

ListedExactly(name) ==
    \E k \in 1..Len(Unit_Test_Exclusions.vec) :
        Unit_Test_Exclusions.vec[k] = name

C14_SkippedIffExactName ==
    /\ \A i \in 1..Len(Tests) :
           /\ Ran(i) => ~ListedExactly(Tests[i].name)
           /\ (pc \notin {"static_init", "main"} /\ i < idx) =>
                  /\ Skipped(i) <=> ListedExactly(Tests[i].name)
                  /\ Ran(i) <=> ~ListedExactly(Tests[i].name)
    /\ (run = 2 /\ Exited /\ SameBehaviour) =>
           /\ exit_status = exit1
           /\ results = results1

C14_Witness ==
    /\ run = 2
    /\ Exited
    /\ exit_status = EXIT_SUCCESS
    /\ exit1 = EXIT_SUCCESS
    /\ Len(Tests) = 2
    /\ Tests[1].name = "G::t"
    /\ Tests[2].name = "G::t"
    /\ calls.excl[1].name = "G::T"
    /\ Unit_Test_Exclusions.vec = <<>>
    /\ WorkerState(2) = "joined"
    /\ Len(results1) = 2

\* C11: (under SpecAssert) whichever of the thirteen macros the statement
\* is, once its condition was false: the body does not return before
\* Test_Failed is true; no further statement of the body is executed (the
\* count of statements executed stays, and the body is never again between
\* two statements); and the banner "Assertion failed at <file>:<line>" with
\* the line of the failing statement is in the output before every labeled
\* value.
AssertionKinds ==
    {"EQ", "NE", "GT", "GE", "LT", "LE", "TRUE", "FALSE", "CLOSE", "MEM_EQ",
     "MEM_NE", "EXCEPTION", "EXCEPTION_E"}

ConditionFalse == stmt.kind \in AssertionKinds /\ stmt.result = "false"

BannerAt(k) ==
    /\ k \in DOMAIN out
    /\ out[k].kind = "assertion_failed"
    /\ out[k].name = File
    /\ out[k].num = nstmt

C11_FailingAssertionFlagsAndReturns ==
    /\ [](ConditionFalse =>
            /\ bpc \in {"evaluated", "failed", "returned"}
            /\ bpc = "returned" => Test_Failed
            /\ \E k \in DOMAIN out : BannerAt(k)
            /\ \A k \in DOMAIN out :
                   out[k].kind = "value" => \E j \in 1..(k - 1) : BannerAt(j))
    /\ [][ConditionFalse =>
            /\ nstmt' = nstmt
            /\ stmt'.result = "false"
            /\ out' = out
            /\ bpc' # "next"]_vars

C11_Witness ==
    /\ stmt.kind = "LT"
    /\ stmt.result = "false"
    /\ bpc = "returned"
    /\ Test_Failed
    /\ nstmt = 1
    /\ nstmt < MaxStmts
    /\ worker[idx] = "end"
    /\ Len(out) = 6
    /\ out[4].kind = "assertion_failed"
    /\ out[5].kind = "value"
    /\ out[6].kind = "value"

\* C15: (under SpecAssert) for buffers a and b and a size n within them,
\* STF_ASSERT_MEM_EQ(a, b, n) succeeds exactly when a[i] = b[i] for every
\* i < n, and STF_ASSERT_MEM_NE(a, b, n) exactly when a[i] # b[i] for some
\* i < n; on the same operands one succeeds exactly when the other fails;
\* with n = 0 equality succeeds and inequality fails. A failure prints both
\* ranges as hex after the banner.
SameOctets(a, b, n) == \A i \in 1..n : a[i] = b[i]

Succeeds == stmt.result = "true"

C15_MemoryEqualAndNotEqualAreNegations ==
    /\ stmt.kind = "MEM_EQ" =>
           /\ stmt.result \in {"true", "false"}
           /\ Succeeds <=> SameOctets(stmt.a, stmt.b, stmt.c)
           /\ Succeeds <=>
                  AssertMemoryNotEqual(nstmt, stmt.a, stmt.b, stmt.c).ret
                      = "false"
           /\ stmt.c = 0 => Succeeds
           /\ ~Succeeds =>
                  /\ out[Len(out) - 1] =
                         ValueLine(ExpectText, "memory",
                                   GetMemoryHex(stmt.a, stmt.c))
                  /\ out[Len(out)] =
                         ValueLine(ActualText, "memory",
                                   GetMemoryHex(stmt.b, stmt.c))
    /\ stmt.kind = "MEM_NE" =>
           /\ stmt.result \in {"true", "false"}
           /\ Succeeds <=> ~SameOctets(stmt.a, stmt.b, stmt.c)
           /\ Succeeds <=>
                  AssertMemoryEqual(nstmt, stmt.a, stmt.b, stmt.c).ret
                      = "false"
           /\ stmt.c = 0 => ~Succeeds

\* Two ranges of MaxLen octets that differ in the first octet only fail
\* the equality assertion.
C15_Witness ==
    /\ stmt.kind = "MEM_EQ"
    /\ stmt.c = MaxLen
    /\ stmt.a[1] # stmt.b[1]
    /\ \A i \in 2..MaxLen : stmt.a[i] = stmt.b[i]
    /\ stmt.result = "false"
    /\ bpc = "returned"
    /\ Test_Failed

\* C16: (under SpecAssert) STF_ASSERT_EXCEPTION_E(function, T) calls the
\* function once; it succeeds exactly when the function throws T or a type
\* derived from T; when the function throws anything else (an ancestor of
\* T included) it fails and prints "some other exception thrown"; when the
\* function returns it fails and prints "no exception thrown"; the
\* exception never leaves the assertion.
DerivedFrom(T) ==
    CASE T = "std::exception" ->
             {"std::exception", "std::runtime_error", "std::logic_error",
              "CustomException"}
      [] T = "std::runtime_error" -> {"std::runtime_error", "CustomException"}
      [] OTHER -> {T}

LastLine == out[Len(out)]

C16_TypedExceptionAssertion ==
    stmt.kind = "EXCEPTION_E" =>
        /\ fcalls = 1
        /\ stmt.result \in {"true", "false"}
        /\ Succeeds <=> stmt.a \in DerivedFrom(stmt.b)
        /\ (stmt.a # "nothing" /\ stmt.a \notin DerivedFrom(stmt.b)) =>
               /\ stmt.result = "false"
               /\ LastLine = ValueLine(ActualText, "stream",
                                       "some other exception thrown")
        /\ stmt.a = "nothing" =>
               /\ stmt.result = "false"
               /\ LastLine = ValueLine(ActualText, "stream",
                                       "no exception thrown")
        /\ Succeeds => out = InitialOutput

\* The function throws std::runtime_error, an ancestor of the expected
\* CustomException.
C16_Witness ==
    /\ stmt.kind = "EXCEPTION_E"
    /\ stmt.a = "std::runtime_error"
    /\ stmt.b = "CustomException"
    /\ stmt.result = "false"
    /\ fcalls = 1
    /\ bpc = "returned"
    /\ Test_Failed
    /\ LastLine.shown = "some other exception thrown"

\* C17: (under SpecAssert) STF_ASSERT_EXCEPTION(function) calls the function
\* once; it succeeds exactly when the function throws, whatever the type of
\* the value thrown (a string literal included); it fails, printing "no
\* exception thrown", exactly when the function returns; the exception never
\* reaches the test body.
C17_AnyExceptionAssertion ==
    stmt.kind = "EXCEPTION" =>
        /\ fcalls = 1
        /\ stmt.result \in {"true", "false"}
        /\ Succeeds <=> stmt.a \in ExceptionTypes
        /\ stmt.result = "false" <=> stmt.a = "nothing"
        /\ stmt.result = "false" =>
               /\ out[Len(out) - 1] =
                      ValueLine(ExpectText, "stream", "any exception thrown")
               /\ LastLine =
                      ValueLine(ActualText, "stream", "no exception thrown")
        /\ Succeeds => out = InitialOutput /\ ~Test_Failed

\* The function throws a string literal and the body goes on.
C17_Witness ==
    /\ stmt.kind = "EXCEPTION"
    /\ stmt.a = "const char*"
    /\ stmt.result = "true"
    /\ fcalls = 1
    /\ bpc = "evaluated"
    /\ nstmt = 2
    /\ ~Test_Failed

\* C18: (under SpecAssert) the comparison macros on integer operands of
\* different types decide by the values the operands have after the integer
\* conversions. Operands of at most 16 bits, which the promotion to int
\* preserves, compare as their mathematical values do. An unsigned int and
\* an unsigned long holding the same value v < 2^32 satisfy STF_ASSERT_EQ
\* and fail STF_ASSERT_NE (in either order). A signed char and an unsigned
\* char holding the same octet b satisfy STF_ASSERT_EQ exactly when b < 128
\* and STF_ASSERT_NE exactly when b >= 128, b = 140 among them.
Comparisons == {"EQ", "NE", "GT", "GE", "LT", "LE"}

\* The mathematical value of a one- or two-octet integer.
Unsigned16(bits) ==
    IF Len(bits) = 1 THEN bits[1] ELSE bits[1] * 256 + bits[2]

Numeric16(x) ==
    IF IsSigned(x.type) /\ x.val[1] >= 128
    THEN Unsigned16(x.val) - 2 ^ (8 * Len(x.val))
    ELSE Unsigned16(x.val)

Holds(kind, m, n) ==
    CASE kind = "EQ" -> m = n
      [] kind = "NE" -> m # n
      [] kind = "GT" -> m > n
      [] kind = "GE" -> m >= n
      [] kind = "LT" -> m < n
      [] kind = "LE" -> m <= n

TypesAre(T, U) == stmt.a.type = T /\ stmt.b.type = U

C18_IntegerComparisonAcrossTypes ==
    (stmt.kind \in Comparisons /\ stmt.a.type \in IntTypes) =>
        /\ stmt.result \in {"true", "false"}
        /\ (SizeOf(stmt.a.type) <= 2 /\ SizeOf(stmt.b.type) <= 2) =>
               (Succeeds <=>
                    Holds(stmt.kind, Numeric16(stmt.a), Numeric16(stmt.b)))
        /\ (/\ \/ TypesAre("unsigned int", "unsigned long")
               \/ TypesAre("unsigned long", "unsigned int")
            /\ \/ stmt.b.val = Fill(4, 0) \o stmt.a.val
               \/ stmt.a.val = Fill(4, 0) \o stmt.b.val) =>
               (Succeeds <=> stmt.kind \in {"EQ", "GE", "LE"})
        /\ (/\ \/ TypesAre("signed char", "unsigned char")
               \/ TypesAre("unsigned char", "signed char")
            /\ stmt.a.val = stmt.b.val) =>
               /\ stmt.kind = "EQ" => (Succeeds <=> stmt.a.val[1] < 128)
               /\ stmt.kind = "NE" => (Succeeds <=> stmt.a.val[1] >= 128)

\* A signed char and an unsigned char both holding 140 are found unequal.
C18_Witness ==
    /\ stmt.kind = "NE"
    /\ stmt.a = Value("signed char", <<140>>)
    /\ stmt.b = Value("unsigned char", <<140>>)
    /\ stmt.result = "true"
    /\ bpc = "evaluated"
    /\ ~Test_Failed

\* C19: (under SpecAssert) STF_ASSERT_CLOSE(lhs, rhs, epsilon) succeeds
\* exactly when |lhs - rhs| < epsilon, strictly, the difference being the
\* one the operands' format yields: whenever the exact difference of two
\* finite operands is a value of the format, the assertion succeeds exactly
\* when that difference is below epsilon in absolute value; it fails when
\* the difference equals epsilon, when epsilon <= 0 (lhs = rhs included)
\* and when an operand is a NaN; 100.00001f against 100.00002f within
\* 0.0001f succeeds and 1.0f against 2.0f within 0.1f fails.
Finite(x) == x.cls = "finite"

\* The exact difference x - y of two finite values, as d * 2^e.
ExactDifference(x, y) ==
    LET e == IF x.e <= y.e THEN x.e ELSE y.e IN
    [d |-> x.m * 2 ^ (x.e - e) - y.m * 2 ^ (y.e - e), e |-> e]

\* |d * 2^e| compared with the finite value y.
Magnitude(x) == IF x.d < 0 THEN [x EXCEPT !.d = -x.d] ELSE x

Compare(x, y) ==
    LET e == IF x.e <= y.e THEN x.e ELSE y.e
        l == Magnitude(x).d * 2 ^ (x.e - e)
        r == y.m * 2 ^ (y.e - e)
    IN
    IF l < r THEN "below" ELSE IF l = r THEN "equal" ELSE "above"

Representable(T, x) == BitLength(Magnitude(x).d) <= Precision(T)

NotPositive(x) ==
    \/ Finite(x) /\ x.m <= 0
    \/ x.cls = "infinite" /\ x.m < 0

Category(T) ==
    IF T = "bool" THEN "boolalpha"
    ELSE IF T \in CharacterTypes THEN "character"
    ELSE IF T \in IntTypes THEN "integral"
    ELSE IF T \in FloatTypes THEN "floating"
    ELSE IF T \in PointerTypes \cup ArrayTypes THEN "address"
    ELSE IF T \in {"std::string", "enum Color", "std::nullptr_t"}
    THEN "stream"
    ELSE "unprintable"

\* What a value line shows of an operand: the operand, and with it the hex
\* field when the rendering is the integral one.
Shown(value) ==
    IF Category(value.type) = "integral" THEN Integral(value) ELSE value

FirstLabel == IF stmt.kind = "EQ" THEN ExpectText ELSE LHSText

SecondLabel == IF stmt.kind = "EQ" THEN ActualText ELSE RHSText

C20_ValuePrinterDispatch ==
    /\ \A k \in DOMAIN out : out[k].kind = "value" =>
           out[k].render # "ill-formed"
    /\ (stmt.kind \in Comparisons \cup {"CLOSE"} /\ stmt.result = "false") =>
           /\ Len(out) = Len(InitialOutput) + 4
           /\ out[Len(out) - 1] =
                  ValueLine(FirstLabel, Category(stmt.a.type), Shown(stmt.a))
           /\ LastLine =
                  ValueLine(SecondLabel, Category(stmt.b.type), Shown(stmt.b))

\* Two objects of a class without operator<< are compared and differ.
C20_Witness ==
    /\ stmt.kind = "EQ"
    /\ stmt.result = "false"
    /\ stmt.a.type = "SomeObject"
    /\ stmt.b.type = "SomeObject"
    /\ out[Len(out) - 1].render = "unprintable"
    /\ LastLine.render = "unprintable"
    /\ bpc = "returned"
    /\ Test_Failed

\* C21: in a run that ends with status 0 the total duration of the summary
\* line is the sum, over the tests whose body was invoked, of the time from
\* the worker's start (when it invoked the body) to the worker's end (when
\* the body had returned); these are exactly the tests that are not
\* excluded, one duration line was printed for each of them with that
\* difference, and an excluded test adds nothing.
EventAt(kind, i) ==
    trace[CHOOSE k \in DOMAIN trace :
              trace[k].test = i /\
              (IF kind = "invoke" THEN trace[k].kind = "invoke"
               ELSE trace[k].kind # "invoke")].at

WorkerDuration(i) == EventAt("return", i) - EventAt("invoke", i)

RECURSIVE SumOfWorkerDurations(_)
SumOfWorkerDurations(i) ==
    IF i > Len(Tests) THEN 0
    ELSE (IF Invoked(i) THEN WorkerDuration(i) ELSE 0)
             + SumOfWorkerDurations(i + 1)

DurationLines == SelectSeq(out, LAMBDA l : l.kind = "duration")

Executed == {i \in 1..Len(Tests) : Invoked(i)}

RECURSIVE ExecutedInOrder(_)
ExecutedInOrder(i) ==
    IF i > Len(Tests) THEN <<>>
    ELSE (IF Invoked(i) THEN <<i>> ELSE <<>>) \o ExecutedInOrder(i + 1)

C21_TotalIsSumOfExecuted ==
    (Exited /\ exit_status = EXIT_SUCCESS) =>
        /\ total_duration = SumOfWorkerDurations(1)
        /\ out[Len(out)] = Line("all_passed", "", SumOfWorkerDurations(1))
        /\ Executed = {i \in 1..Len(Tests) : Tests[i].name \notin ExcludedNames}
        /\ Len(DurationLines) = Cardinality(Executed)
        /\ \A k \in 1..Len(DurationLines) :
               DurationLines[k].num = WorkerDuration(ExecutedInOrder(1)[k])

\* Two tests ran, the first for one clock unit and the second for none.
C21_Witness ==
    /\ Exited
    /\ exit_status = EXIT_SUCCESS
    /\ Len(Tests) = 2
    /\ Executed = {1, 2}
    /\ WorkerDuration(1) = MaxDur
    /\ WorkerDuration(2) = 0
    /\ total_duration = MaxDur
    /\ test_start_time = MaxDur

\* C22: the controller holds test_mutex from before the worker is created
\* until wait_for releases it, and the worker notifies only while it holds
\* that mutex; so notify_one is never called before the controller has
\* begun to wait, however fast the body is: the controller never waits for
\* a notification that was already issued, a notification that arrives
\* while it waits ends the wait with no_timeout, and wait_for reports a
\* timeout only when the clock has reached the test's timeout.
Notifies == notified' # notified

C22_NoNotifyBeforeWait ==
    /\ [](/\ pc \in {"spawn", "prewait"} => test_mutex = "main"
          /\ \A i \in DOMAIN worker :
                 /\ worker[i] = "notify" => test_mutex = "worker"
                 /\ worker[i] \notin {"none", "joined"} =>
                        i = idx /\ pc # "spawn"
          /\ pc \in {"spawn", "prewait", "wait"} => idx \notin notified
          /\ cv_status = "timeout" =>
                 now >= wait_start + Tests[idx].timeout)
    /\ [][Notifies =>
            /\ pc \in {"wait", "woken"}
            /\ notified' = notified \cup {idx}
            /\ pc = "wait" => pc' = "woken" /\ cv_status' = "no_timeout"]_vars

\* The body is over before the controller waits: the worker stands at its
\* lock_guard while the controller still holds the mutex.
C22_Witness ==
    /\ pc = "prewait"
    /\ test_mutex = "main"
    /\ worker[idx] = "lock"
    /\ idx \notin notified
    /\ test_end_time = test_start_time

\* C23: no reachable state is the deadlock in which the controller is
\* blocked in join while it holds test_mutex and the worker, its body over,
\* is blocked at the lock_guard that needs that mutex before it notifies.
JoinDeadlock ==
    /\ pc = "join"
    /\ test_mutex = "main"
    /\ worker[idx] = "lock"
    /\ \E k \in DOMAIN trace :
           trace[k].test = idx /\ trace[k].kind \in Outcomes

C23_NoJoinDeadlock == ~JoinDeadlock

Decides ==
    /\ Len(results') = Len(results) + 1
    /\ results'[Len(results')].kind \in {"ok", "failed"}

WorkerWrites ==
    \/ Test_Failed' # Test_Failed
    \/ test_start_time' # test_start_time /\ pc # "loop"
    \/ test_end_time' # test_end_time /\ pc # "loop"

C25_ReadsOnlyAfterJoin ==
    /\ [](pc = "joined" => worker[idx] = "joined")
    /\ [][Decides =>
            /\ pc = "joined"
            /\ worker[idx] = "joined"
            /\ results'[Len(results')].test = idx
            /\ results'[Len(results')].kind = "failed" <=> Test_Failed
            /\ ~Test_Failed =>
                   /\ out'[Len(out')] =
                          Line("duration", "",
                               test_end_time - test_start_time)
                   /\ test_start_time <= test_end_time]_vars
    /\ [][WorkerWrites =>
            /\ pc \notin {"join", "joined"} \/ worker[idx] # "joined"
            /\ worker[idx] \in {"start", "body", "end"}
            /\ worker'[idx] # "joined"]_vars
    /\ [][(pc = "timedout" /\ pc' # pc) =>
            /\ total_duration' = total_duration
            /\ CountKind(out', "duration") = CountKind(out, "duration")
            /\ results'[Len(results')].kind = "timeout"
            /\ exit_status' = EXIT_FAILURE]_vars

\* The controller has joined a worker whose body took time and failed.
C25_Witness ==
    /\ pc = "joined"
    /\ worker[idx] = "joined"
    /\ Test_Failed
    /\ test_end_time = test_start_time + MaxDur
    /\ idx = 2

\* C26: (under SpecOrder) the tests executed and the exit status depend on
\* the ordered registry and on the set of excluded names only.  Whatever
\* the order and the repetitions of the names in the exclusion list, a
\* registered test is skipped exactly when its name belongs to the set;
\* and the run made again with the same names excluded in another order,
\* or more than once, in which the executed tests behave alike, executes
\* the same tests with the same outcomes and exits with the same status.
C26_DependsOnOrderedTestsAndExcludedSet ==
    /\ \A name \in Names : IsExcluded(name) <=> name \in ExcludedNames
    /\ (run = 2 /\ Exited /\ SameBehaviour) =>
           /\ tests1 = Tests
           /\ results = results1
           /\ exit_status = exit1

C26_Witness ==
    /\ run = 2
    /\ Exited
    /\ exit_status = EXIT_SUCCESS
    /\ exit1 = EXIT_SUCCESS
    /\ Len(Tests) = 2
    /\ Tests[1].name = "G::T"
    /\ Tests[2].name = "G::t"
    /\ Unit_Test_Exclusions.vec = <<"G::T", "G::T">>
    /\ results = <<Result("ok", 2)>>
    /\ results1 = results

\* C27: once main() is entered with a non-empty registry, no failed
\* registration and every registered test excluded: no test body is
\* invoked and no worker is created, no test result and no duration line is
\* produced, the "no registered tests" error is not raised, the aggregate
\* duration stays zero, and an exited run has printed the total of zero and
\* returned 0.  Such a run is never stuck before its exit, and each of its
\* steps brings it nearer to the exit.
EveryTestExcluded ==
    /\ pc # "static_init"
    /\ Len(Tests) >= 1
    /\ failed_registrations = 0
    /\ \A i \in 1..Len(Tests) : Tests[i].name \in ExcludedNames

StepsToExit ==
    CASE pc = "main" -> Len(Tests) + 2
      [] pc = "loop" -> Len(Tests) + 2 - idx
      [] pc = "exited" -> 0
      [] OTHER -> Len(Tests) + 3

C27_AllExcludedRunsNothing ==
    /\ [](EveryTestExcluded =>
             /\ trace = <<>>
             /\ results = <<>>
             /\ \A i \in 1..Len(Tests) : WorkerState(i) = "none"
             /\ total_duration = 0
             /\ test_mutex = "free"
             /\ \A k \in DOMAIN out :
                    out[k].kind \in {"total", "excluding", "all_passed"}
             /\ Exited =>
                    /\ exit_status = EXIT_SUCCESS
                    /\ Len(out) = Len(Tests) + 2
                    /\ out[Len(out)] = Line("all_passed", "", 0)
             /\ ~Exited => ENABLED Controller)
    /\ [][EveryTestExcluded => StepsToExit' < StepsToExit]_vars

C27_Witness ==
    /\ EveryTestExcluded
    /\ Exited
    /\ exit_status = EXIT_SUCCESS
    /\ Len(Tests) = 2
    /\ Tests[1].name = "G::t"
    /\ Tests[2].name = "G::t"
    /\ idx = 3
    /\ out[Len(out)] = Line("all_passed", "", 0)

\* C28: (under SpecAssert) whichever of the thirteen macros the statement
\* is, when its condition holds: evaluating it prints nothing and leaves
\* Test_Failed as it was; the step that follows is enabled, leaves
\* Test_Failed, the output, the worker and the history as they were and
\* puts the body at its next statement, not at its return.
ConditionHeld == bpc = "evaluated" /\ stmt.result = "true"

C28_PassingAssertionHasNoEffect ==
    /\ [](ConditionHeld => ENABLED MacroContinues)
    /\ [][/\ ConditionHeld' =>
                /\ out' = out
                /\ Test_Failed' = Test_Failed
                /\ worker' = worker
                /\ trace' = trace
          /\ ConditionHeld =>
                /\ out' = out
                /\ Test_Failed' = Test_Failed
                /\ worker' = worker
                /\ trace' = trace
                /\ nstmt' = nstmt
                /\ bpc' = "next"]_vars

C28_Witness ==
    /\ bpc = "next"
    /\ nstmt = 2
    /\ Test_Failed = FALSE
    /\ out = InitialOutput
    /\ WorkerState(1) = "body"

\* C29: (under SpecAssert) every value line the integral overload prints
\* shows a hex field of exactly twice as many digits as the type has
\* octets, and the digits are those of the value's own octets (the value
\* modulo 2^(8 * sizeof(T)), zero-padded), negative values of short
\* included.
IntegralLines == {k \in DOMAIN out : out[k].kind = "value" /\ out[k].render = "integral"}

C29_HexSizedToType ==
    \A k \in IntegralLines :
        /\ Len(out[k].shown.hex) = 2 * SizeOf(out[k].shown.type)
        /\ out[k].shown.hex = HexOf(out[k].shown.val)

\* C30: (under SpecDuration) a printed duration of d nanoseconds has the
\* unit s exactly when d >= 10^9, ms exactly when 10^6 <= d < 10^9 and us
\* otherwise, and the number printed before the unit is at least 1.
Printed(k) == [unit |-> out[k].name, thousandths |-> out[k].num]

UnitFor(d) ==
    IF d >= 1000000000 THEN "s" ELSE IF d >= 1000000 THEN "ms" ELSE "us"

DurationTexts == {k \in DOMAIN out : out[k].kind \in {"duration", "all_passed"}}

C30_CoarsestUnitAtLeastOne ==
    \A k \in DurationTexts :
        /\ Printed(k).unit = UnitFor(test_end_time - test_start_time)
        /\ Printed(k).thousandths >= 1000

====
